---------------------------- MODULE Spec2Model ----------------------------
(***************************************************************************)
(* Verification core of the Verified-Worlds backend: the game controller's *)
(* verifyPlayerStats / reverifyProof / deleteMyVerification handlers, the  *)
(* quest controller's startQuest / completeQuest handlers, the legacy      *)
(* POST /:proofId/verify route, EnhancedGameService (rate limiter, stats   *)
(* cache, skill assessment) and FraudDetectionService.                     *)
(*                                                                         *)
(* Every `await` of a handler is one step of the request that runs it, so  *)
(* requests interleave exactly where the Node event loop lets them.        *)
(* Times are milliseconds, as Date.now() returns them.                     *)
(***************************************************************************)
EXTENDS Integers, Sequences, FiniteSets, TLC

\* ------------------------------------------------------------------ bounds
\* Number of clock advances explored.
MaxTicks == 2
\* Number of handler calls started in one behaviour.
MaxCalls == 3
\* Rate-limiter specification: largest clock value, largest configured
\* limit and window (configured through updateApiLimits).
MaxNow == 3
MaxLimit == 2
MaxWindow == 2
\* Specification of the submission gates: calls started and clock advances.
MaxGateCalls == 2
MaxGateTicks == 1
MaxReverifyCalls == 2
MaxReverifyTicks == 1

\* ------------------------------------------------------- program constants
CacheTtl == 300000
AttemptWindow == 3600000
MaxAttempts == 5
Day == 86400000
BehaviorThreshold == 5
AutoApproveBelow == 70
ReviewFrom == 50

Lol == "league_of_legends"
Valorant == "valorant"
CS == "counter_strike"
Games == {Lol, Valorant, CS}

Users == {1, 2}

\* supportedGames[game].rateLimit as the constructor sets it
DefaultRateLimit ==
  [g \in Games |->
     CASE g = Lol -> [requests |-> 100, window |-> 120000]
       [] g = Valorant -> [requests |-> 60, window |-> 60000]
       [] OTHER -> [requests |-> 200, window |-> 300000]]

VARIABLES
  now,             \* Date.now()
  ticks,           \* number of clock advances so far
  rateLimit,       \* supportedGames[game].rateLimit
  rateLimitStore,  \* EnhancedGameService.rateLimitStore: key -> timestamps
  rlLog,           \* history: per key, the timestamps of all allowed calls
  rlRes,           \* history: the last checkRateLimit call and its outcome
  apiCache,        \* EnhancedGameService.apiCache: key -> {data, timestamp}
  proofs,          \* table proofs (db.Proof)
  progress,        \* table progress (db.Progress)
  leaderboard,     \* table leaderboards (db.Leaderboard)
  attempts,        \* table of db.VerificationAttempt
  nextId,          \* next auto-increment key of each table
  pc,              \* per request slot: the await the handler is suspended at
  loc,             \* per request slot: the handler's local variables
  last,            \* history: per slot, the current or last call and its response
  contrib,         \* history: per (userId, worldId), initial score plus every
                   \* score handed to a completed updateLeaderboard
  calls,           \* number of handler calls started
  opsUsed          \* history: the handlers called so far

rlVars == <<now, ticks, rateLimit, rateLimitStore, rlLog, rlRes>>
dbVars == <<proofs, progress, leaderboard, attempts, nextId>>
reqVars == <<pc, loc, last, calls, opsUsed>>
vars == <<now, ticks, rateLimit, rateLimitStore, rlLog, rlRes, apiCache,
          proofs, progress, leaderboard, attempts, nextId, pc, loc, last,
          contrib, calls, opsUsed>>
restOfRL == <<apiCache, proofs, progress, leaderboard, attempts, nextId, pc,
              loc, last, contrib, calls, opsUsed>>

\* ------------------------------------------------------------------- data
Min(a, b) == IF a < b THEN a ELSE b
Max(a, b) == IF a > b THEN a ELSE b

\* Quest table (owned by the quest CRUD, read-only here).  Quests 1 and 2
\* are the quests the modelled requests name; quest 1 requires proof, quest
\* 2 does not.  Quests 3..8 are the quests of earlier verifications.  All
\* belong to world 1.
FocusQuests == {1, 2}
PriorQuests == 3..8
Quests == FocusQuests \cup PriorQuests
MissingQuest == 9
ProofRequired(q) == q # 2
QuestWorld(q) == 1
Worlds == {1}

\* A game account is the string of its characters' classes: "L" letter,
\* "D" digit, "S" blank, "H" the hash sign.
AcctA == <<"L", "L", "L", "L">>
AcctB == <<"L", "L", "L", "D">>
AcctBad == <<"L", "H">>
Accounts == {AcctA, AcctB, AcctBad}

AllIn(a, classes) == \A i \in DOMAIN a : a[i] \in classes

\* validateGameAccountFormat: the three regular expressions
ValidAccountFormat(game, a) ==
  CASE game = Lol -> AllIn(a, {"L", "D", "S"}) /\ Len(a) >= 3 /\ Len(a) <= 16
    [] game = Valorant ->
         \E h \in DOMAIN a :
           /\ a[h] = "H"
           /\ h - 1 >= 3 /\ h - 1 <= 16
           /\ Len(a) - h >= 3 /\ Len(a) - h <= 5
           /\ \A i \in 1..(h - 1) : a[i] \in {"L", "D", "S"}
           /\ \A i \in (h + 1)..Len(a) : a[i] \in {"L", "D"}
    [] OTHER -> AllIn(a, {"D"}) /\ Len(a) = 17

\* Raw stats as the provider functions build them.  Rates are kept in
\* hundredths (toFixed(2)), ratios in tenths.
NoStats ==
  [summonerLevel |-> 0, hasSolo |-> FALSE, tier |-> "none", rank |-> "",
   leaguePoints |-> 0, wins |-> 0, losses |-> 0, averageKDAx10 |-> 0,
   accountLevel |-> 0, headShotX100 |-> 0, kdrX100 |-> 0,
   rr |-> 0, winRateX100 |-> 0, utilityScore |-> 0]

\* analyzeRecentMatches returns averageKDA 2.1 for every summoner
LolStats(level, tier, rank, lp, wins, losses) ==
  [NoStats EXCEPT !.summonerLevel = level, !.hasSolo = TRUE, !.tier = tier,
                  !.rank = rank, !.leaguePoints = lp, !.wins = wins,
                  !.losses = losses, !.averageKDAx10 = 21]

LolClean == LolStats(120, "GOLD", "II", 40, 55, 45)
LolSmurf == LolStats(30, "DIAMOND", "I", 80, 58, 2)

\* what the provider of a game may answer for an account
StatsOf(game) == IF game = Lol THEN {LolClean, LolSmurf} ELSE {}

\* soloQueue.winRate = (wins / (wins + losses) * 100).toFixed(2), or 0
WinRateX100(stats) ==
  IF stats.hasSolo /\ stats.wins + stats.losses > 0
    THEN (stats.wins * 20000 + (stats.wins + stats.losses))
           \div (2 * (stats.wins + stats.losses))
    ELSE 0

\* --------------------------------------------------- FraudDetectionService
checkImpossibleStats(game, stats) ==
  CASE game = Lol ->
         (IF WinRateX100(stats) > 9500 /\ stats.wins + stats.losses > 50
            THEN 40 ELSE 0)
         + (IF stats.averageKDAx10 > 40 /\ stats.tier \in {"IRON", "BRONZE"}
              THEN 30 ELSE 0)
    [] game = Valorant -> IF stats.headShotX100 > 6000 THEN 35 ELSE 0
    [] OTHER -> IF stats.kdrX100 > 300 /\ stats.headShotX100 > 7000 THEN 50 ELSE 0

checkStatConsistency(game, stats) == 0

\* db.Proof.count({userId, submittedAt >= now - 24h}) > 5 ? 20 : 0
RecentVerifications(userId) ==
  Cardinality({p \in proofs : p.userId = userId /\ p.submittedAt >= now - Day})

checkUserBehavior(userId) ==
  IF RecentVerifications(userId) > BehaviorThreshold THEN 20 ELSE 0

checkAccountCredibility(game, stats) ==
  CASE game = Lol ->
         IF stats.summonerLevel < 50 /\ stats.tier # "UNRANKED" THEN 25 ELSE 0
    [] game = Valorant ->
         IF stats.accountLevel < 20 /\ stats.tier # "Unranked" THEN 25 ELSE 0
    [] OTHER -> 0

\* The flag strings each check pushes into analyzeStats' local `flags` array
\* (analyzeStats returns the number only).
flagsOfImpossibleStats(game, stats) ==
  CASE game = Lol ->
         (IF WinRateX100(stats) > 9500 /\ stats.wins + stats.losses > 50
            THEN {"Impossibly high win rate"} ELSE {})
         \cup (IF stats.averageKDAx10 > 40 /\ stats.tier \in {"IRON", "BRONZE"}
                 THEN {"KDA inconsistent with rank"} ELSE {})
    [] game = Valorant ->
         IF stats.headShotX100 > 6000 THEN {"Unusually high headshot rate"} ELSE {}
    [] OTHER ->
         IF stats.kdrX100 > 300 /\ stats.headShotX100 > 7000
           THEN {"Professional-level stats detected"} ELSE {}

flagsOfStatConsistency(game, stats) == {}

flagsOfUserBehavior(userId) == {}

flagsOfAccountCredibility(game, stats) ==
  CASE game = Lol ->
         IF stats.summonerLevel < 50 /\ stats.tier # "UNRANKED"
           THEN {"Low level account with ranked stats"} ELSE {}
    [] game = Valorant ->
         IF stats.accountLevel < 20 /\ stats.tier # "Unranked"
           THEN {"Low level account with competitive rank"} ELSE {}
    [] OTHER -> {}

\* (variant: the sum of the weights without the cap)
analyzeStatsUncapped(game, stats, userId) ==
  checkImpossibleStats(game, stats) + checkStatConsistency(game, stats)
    + checkUserBehavior(userId) + checkAccountCredibility(game, stats)

analyzeStats(game, stats, userId) ==
  Min(checkImpossibleStats(game, stats) + checkStatConsistency(game, stats)
        + checkUserBehavior(userId) + checkAccountCredibility(game, stats),
      100)

\* ------------------------------------------------------- skill and scores
LolTierMin(tier) ==
  CASE tier = "IRON" -> 0 [] tier = "BRONZE" -> 200 [] tier = "SILVER" -> 400
    [] tier = "GOLD" -> 600 [] tier = "PLATINUM" -> 800
    [] tier = "DIAMOND" -> 1000 [] tier = "MASTER" -> 1200
    [] tier = "GRANDMASTER" -> 1400 [] tier = "CHALLENGER" -> 1600
    [] OTHER -> -1

\* the league_of_legends branch of assessSkillLevelAdvanced, in quarter
\* points so that the LP bonus min(lp/100*25, 25) stays an integer
LolSkillScoreX4(stats) ==
  (IF LolTierMin(stats.tier) >= 0
     THEN 4 * LolTierMin(stats.tier)
          + 4 * (CASE stats.rank = "I" -> 75 [] stats.rank = "II" -> 50
                   [] stats.rank = "III" -> 25 [] OTHER -> 0)
          + Min(stats.leaguePoints, 100)
     ELSE 0)
  + 4 * (IF WinRateX100(stats) > 6000 THEN 50
         ELSE IF WinRateX100(stats) < 4500 THEN -30 ELSE 0)
  + 4 * (IF stats.averageKDAx10 > 20 THEN 30
         ELSE IF stats.averageKDAx10 < 10 THEN -20 ELSE 0)

SkillLevelOfScoreX4(s) ==
  IF s >= 4 * 1600 THEN "Expert"
  ELSE IF s >= 4 * 1200 THEN "Advanced"
  ELSE IF s >= 4 * 800 THEN "Intermediate+"
  ELSE IF s >= 4 * 400 THEN "Intermediate"
  ELSE IF s >= 4 * 100 THEN "Beginner"
  ELSE "Novice"

\* the valorant branch: the tier's min and the RR, then the modifiers of
\* recentPerformance.kdr and recentPerformance.headShotPercentage
ValorantSkillScore(stats) ==
  LET min == CASE stats.tier = "Iron" -> 0 [] stats.tier = "Bronze" -> 300
               [] stats.tier = "Silver" -> 600 [] stats.tier = "Gold" -> 900
               [] stats.tier = "Platinum" -> 1200 [] stats.tier = "Diamond" -> 1500
               [] stats.tier = "Ascendant" -> 1800 [] stats.tier = "Immortal" -> 2100
               [] stats.tier = "Radiant" -> 2400 [] OTHER -> -1
  IN (IF min >= 0 THEN min + stats.rr ELSE 0)
     + (IF stats.kdrX100 > 120 THEN 40
        ELSE IF stats.kdrX100 < 80 THEN -30 ELSE 0)
     + (IF stats.headShotX100 > 2500 THEN 30 ELSE 0)

\* the counter_strike branch: the base from combat.kdr and matches.winRate,
\* then the headshot and utility bonuses
CSSkillScore(stats) ==
  (IF stats.kdrX100 > 150 /\ stats.winRateX100 > 6000 THEN 1700
   ELSE IF stats.kdrX100 > 120 /\ stats.winRateX100 > 5500 THEN 1400
   ELSE IF stats.kdrX100 > 100 /\ stats.winRateX100 > 5000 THEN 1100
   ELSE IF stats.kdrX100 > 80 /\ stats.winRateX100 > 4500 THEN 800
   ELSE IF stats.kdrX100 > 60 THEN 500
   ELSE 200)
  + (IF stats.headShotX100 > 5000 THEN 100
     ELSE IF stats.headShotX100 > 4000 THEN 50 ELSE 0)
  + (IF stats.utilityScore > 100 THEN 50 ELSE 0)

assessSkillLevelAdvanced(game, stats) ==
  CASE game = Lol -> SkillLevelOfScoreX4(LolSkillScoreX4(stats))
    [] game = Valorant -> SkillLevelOfScoreX4(4 * ValorantSkillScore(stats))
    [] game = CS -> SkillLevelOfScoreX4(4 * CSSkillScore(stats))
    [] OTHER -> "Novice"

calculateSkillScore(skillLevel) ==
  CASE skillLevel = "Novice" -> 50 [] skillLevel = "Beginner" -> 100
    [] skillLevel = "Intermediate" -> 250 [] skillLevel = "Intermediate+" -> 400
    [] skillLevel = "Advanced" -> 600 [] skillLevel = "Expert" -> 1000
    [] OTHER -> 50

RateKeys == Games \X Users

NoCall == [game |-> "none", userId |-> 0, at |-> 0, ok |-> FALSE, prior |-> <<>>]

\* ------------------------------------------------------------ rate limiter
\* recentRequests = userRequests.filter(timestamp => timestamp > windowStart)
RecentRequests(game, userId) ==
  SelectSeq(rateLimitStore[<<game, userId>>],
            LAMBDA ts : ts > now - rateLimit[game].window)

RateLimitExceededOffByOne(game, userId) ==
  Len(RecentRequests(game, userId)) > rateLimit[game].requests

\* if (recentRequests.length >= config.requests) throw 429
RateLimitExceeded(game, userId) ==
  Len(RecentRequests(game, userId)) >= rateLimit[game].requests

\* (variant: the list written back holds the new timestamp only, as when a
\* racing call's write is lost)
StoreAfterCheckLosingWrites(game, userId) ==
  IF RateLimitExceeded(game, userId)
    THEN rateLimitStore
    ELSE [rateLimitStore EXCEPT ![<<game, userId>>] = <<now>>]

\* rateLimitStore after checkRateLimit(game, userId): untouched when the call
\* throws, otherwise the pruned list with `now` appended
StoreAfterCheck(game, userId) ==
  IF RateLimitExceeded(game, userId)
    THEN rateLimitStore
    ELSE [rateLimitStore EXCEPT ![<<game, userId>>] =
            Append(RecentRequests(game, userId), now)]

LogAfterCheck(game, userId) ==
  IF RateLimitExceeded(game, userId)
    THEN rlLog
    ELSE [rlLog EXCEPT ![<<game, userId>>] = Append(@, now)]

CallRecord(game, userId) ==
  [game |-> game, userId |-> userId, at |-> now,
   ok |-> ~RateLimitExceeded(game, userId), prior |-> rlLog[<<game, userId>>]]

\* One checkRateLimit call on its own (the function has no await inside, so
\* it runs to completion without interleaving).
CheckRateLimit(game, userId) ==
  /\ rateLimitStore' = StoreAfterCheck(game, userId)
  /\ rlLog' = LogAfterCheck(game, userId)
  /\ rlRes' = CallRecord(game, userId)
  /\ UNCHANGED <<now, ticks, rateLimit>>
  /\ UNCHANGED restOfRL

\* The clock of the rate-limiter specification advances one millisecond.
TickMs ==
  /\ now < MaxNow
  /\ now' = now + 1
  /\ UNCHANGED <<ticks, rateLimit, rateLimitStore, rlLog, rlRes>>
  /\ UNCHANGED restOfRL

\* ------------------------------------------------------------ initial state
Reqs == {1, 2}
ActiveUsers == {1}
SubmitGames == {Lol}
VerifyQuests == {1, MissingQuest}
\* String.prototype.includes: a case-sensitive substring test
Includes(s, t) ==
  \E i \in 1..(Len(s) - Len(t) + 1) : SubSeq(s, i, i + Len(t) - 1) = t

\* What the HTTP client rejects with: the status of the upstream response
\* (0: no response, the request timed out) and the client's message
UpstreamErrors ==
  {[status |-> 404, message |-> "Request failed with status code 404"],
   [status |-> 429, message |-> "Request failed with status code 429"],
   [status |-> 403, message |-> "Request failed with status code 403"],
   [status |-> 0, message |-> "timeout of 10000ms exceeded"]}

\* the catch block of fetchLeagueStatsAdvanced: the message of the AppError
\* it throws
LeagueFetchError(error) ==
  IF error.status = 404 THEN "Summoner not found"
  ELSE IF error.status = 429 THEN "Rate limit exceeded for Riot API"
  ELSE IF error.status = 403 THEN "Invalid API key for Riot Games"
  ELSE "Failed to fetch League stats: " \o error.message

FetchErrors == {LeagueFetchError(error) : error \in UpstreamErrors}
CompleteScores == {10}
TickSteps == {CacheTtl, Day + 1}
CacheKeys == SubmitGames \X Accounts

Idle ==
  [op |-> "none", userId |-> 0, questId |-> 0, game |-> "none",
   account |-> <<>>, proofId |-> 0, attemptId |-> 0, stats |-> NoStats,
   skill |-> "none", fraud |-> 0, progId |-> 0, progScore |-> 0, lbId |-> 0,
   lbScore |-> 0, score |-> 0, worldId |-> 0, err |-> "none", ret |-> "none",
   \* history of the call: the cached entry it was served and that entry's
   \* age, whether it called the provider, the tables it has written
   cacheHit |-> FALSE, cacheAge |-> 0, fetched |-> FALSE, wrote |-> {},
   \* the result of zkTLSService.generateProof
   commitment |-> "", timestamp |-> 0]

NoLast ==
  [op |-> "none", userId |-> 0, questId |-> 0, res |-> "none", made |-> 0,
   overlap |-> FALSE]

NoEntry == [present |-> FALSE, stats |-> NoStats, skill |-> "none", timestamp |-> 0]

\* Earlier verifications of user 1, as six verifyPlayerStats calls at time 0
\* left them (three per game, within the attempt limit of each game): one
\* verified proof, one verified progress record and one attempt per quest,
\* and the leaderboard entry of world 1 holding the six contributions.
PriorGame(q) == IF q <= 5 THEN Valorant ELSE CS
PriorAccount(q) ==
  IF q <= 5 THEN <<"L", "L", "L", "H", "D", "D", "D">>
  ELSE [i \in 1..17 |-> "D"]

PriorProofs(Q) ==
  {[id |-> q - 2, userId |-> 1, questId |-> q, gameAccount |-> PriorAccount(q),
    apiSource |-> PriorGame(q), fraudScore |-> 0, verified |-> TRUE,
    needsManualReview |-> FALSE, submittedAt |-> 0, lastVerified |-> -1,
    newFraudScore |-> -1, blockchainTx |-> TRUE] : q \in Q}

PriorProgress(Q) ==
  {[id |-> q - 2, userId |-> 1, questId |-> q, status |-> "verified",
    score |-> calculateSkillScore("Novice")] : q \in Q}

PriorLeaderboard(Q) ==
  IF Q = {} THEN {}
  ELSE {[id |-> 1, userId |-> 1, worldId |-> 1,
         score |-> Cardinality(Q) * calculateSkillScore("Novice")]}

PriorAttempts(Q) ==
  {[id |-> q - 2, userId |-> 1, game |-> PriorGame(q), attemptedAt |-> 0,
    success |-> TRUE, error |-> "none", fraudScore |-> 0] : q \in Q}

EntryScore(lb, u, w) ==
  IF \E e \in lb : e.userId = u /\ e.worldId = w
    THEN (CHOOSE e \in lb : e.userId = u /\ e.worldId = w).score
    ELSE 0

\* The service is constructed (empty in-memory cache and rate store) over a
\* store that is empty or holds user 1's earlier verifications.
Init ==
  /\ now = 0
  /\ ticks = 0
  /\ rateLimit = DefaultRateLimit
  /\ rateLimitStore = [k \in RateKeys |-> <<>>]
  /\ rlLog = [k \in RateKeys |-> <<>>]
  /\ rlRes = NoCall
  /\ apiCache = [k \in CacheKeys |-> NoEntry]
  /\ \E Q \in {{}, PriorQuests} :
       /\ proofs = PriorProofs(Q)
       /\ progress = PriorProgress(Q)
       /\ leaderboard = PriorLeaderboard(Q)
       /\ attempts = PriorAttempts(Q)
       /\ nextId = [proof |-> Cardinality(Q) + 1, progress |-> Cardinality(Q) + 1,
                    leaderboard |-> Cardinality(PriorLeaderboard(Q)) + 1,
                    attempt |-> Cardinality(Q) + 1]
       /\ contrib = [k \in Users \X Worlds |->
                       EntryScore(PriorLeaderboard(Q), k[1], k[2])]
  /\ pc = [r \in Reqs |-> "idle"]
  /\ loc = [r \in Reqs |-> Idle]
  /\ last = [r \in Reqs |-> NoLast]
  /\ calls = 0
  /\ opsUsed = {}

\* ------------------------------------------------------------ control flow
AllIdle == \A r \in Reqs : pc[r] = "idle"

Goto(r, p, l) ==
  /\ pc' = [pc EXCEPT ![r] = p]
  /\ loc' = [loc EXCEPT ![r] = l]

\* the handler answers (res.json or next(err)) and ends
Return(r, result) ==
  /\ pc' = [pc EXCEPT ![r] = "idle"]
  /\ loc' = [loc EXCEPT ![r] = Idle]
  /\ last' = [last EXCEPT ![r].res = result]

\* (variant: the error is swallowed and the handler carries on)
ThrowSwallowed(r, e) ==
  IF loc[r].op = "verify"
    THEN Goto(r, loc[r].ret, [loc[r] EXCEPT !.err = e]) /\ UNCHANGED last
    ELSE Return(r, e)

\* An exception inside the try block: verifyPlayerStats' catch updates the
\* attempt record (an await) before answering; reverifyProof's catch
\* answers at once.
Throw(r, e) ==
  IF loc[r].op = "verify"
    THEN Goto(r, "v_catch", [loc[r] EXCEPT !.err = e]) /\ UNCHANGED last
    ELSE Return(r, e)

Begin(r, op, u, q, p, l) ==
  /\ pc[r] = "idle"
  /\ calls < MaxCalls
  /\ calls' = calls + 1
  /\ opsUsed' = opsUsed \cup {op}
  /\ pc' = [pc EXCEPT ![r] = p]
  /\ loc' = [loc EXCEPT ![r] = l]
  /\ last' = [x \in Reqs |->
       IF x = r
         THEN [op |-> op, userId |-> u, questId |-> q, res |-> "pending",
               made |-> 0,
               overlap |-> op = "verify" /\
                 \E y \in Reqs \ {r} :
                   /\ pc[y] # "idle" /\ loc[y].op = "verify"
                   /\ loc[y].userId = u /\ loc[y].questId = q]
       ELSE IF /\ op = "verify" /\ pc[x] # "idle" /\ loc[x].op = "verify"
               /\ loc[x].userId = u /\ loc[x].questId = q
         THEN [last[x] EXCEPT !.overlap = TRUE]
       ELSE last[x]]

\* a call that answers in its first step
Answer(r, op, u, q, result) ==
  /\ pc[r] = "idle"
  /\ calls < MaxCalls
  /\ calls' = calls + 1
  /\ opsUsed' = opsUsed \cup {op}
  /\ last' = [last EXCEPT ![r] =
       [op |-> op, userId |-> u, questId |-> q, res |-> result, made |-> 0,
        overlap |-> FALSE]]
  /\ UNCHANGED <<pc, loc>>

\* the clock advances
Tick ==
  /\ ticks < MaxTicks
  /\ \E d \in TickSteps : now' = now + d
  /\ ticks' = ticks + 1
  /\ UNCHANGED <<rateLimit, rateLimitStore, rlLog, rlRes, apiCache, contrib>>
  /\ UNCHANGED dbVars
  /\ UNCHANGED reqVars

\* ------------------------------------------- fetchPlayerStatsWithValidation
\* (variant: an entry exactly 5 minutes old still counts as fresh)
CacheFreshAtTtl(game, account) ==
  /\ apiCache[<<game, account>>].present
  /\ now - apiCache[<<game, account>>].timestamp <= CacheTtl

\* cached && (Date.now() - cached.timestamp) < 300000
CacheFresh(game, account) ==
  /\ apiCache[<<game, account>>].present
  /\ now - apiCache[<<game, account>>].timestamp < CacheTtl

\* Up to the first await: checkRateLimit, validateGameAccountFormat and the
\* cache lookup.  A fresh cache entry is returned; otherwise the provider is
\* called.
FetchEntry(r) ==
  /\ pc[r] = "f_entry"
  /\ LET g == loc[r].game
         u == loc[r].userId
         a == loc[r].account
     IN /\ rateLimitStore' = StoreAfterCheck(g, u)
        /\ IF RateLimitExceeded(g, u)
             THEN Throw(r, "Rate limit exceeded")
           ELSE IF ~ValidAccountFormat(g, a)
             THEN Throw(r, "Invalid account format")
           ELSE IF CacheFresh(g, a)
             THEN Goto(r, loc[r].ret,
                       [loc[r] EXCEPT !.stats = apiCache[<<g, a>>].stats,
                                      !.skill = apiCache[<<g, a>>].skill,
                                      !.cacheHit = TRUE,
                                      !.cacheAge = now - apiCache[<<g, a>>].timestamp])
                  /\ UNCHANGED last
           ELSE Goto(r, "f_provider", [loc[r] EXCEPT !.fetched = TRUE])
                /\ UNCHANGED last
  /\ UNCHANGED <<now, ticks, rateLimit, rlLog, rlRes, apiCache, contrib, calls, opsUsed>>
  /\ UNCHANGED dbVars

\* (variant: a failed fetch leaves an entry in the cache)
FetchProviderCachingFailure(r) ==
  /\ pc[r] = "f_provider"
  /\ \/ /\ \E e \in FetchErrors : Throw(r, e)
        /\ apiCache' = [apiCache EXCEPT ![<<loc[r].game, loc[r].account>>] =
             [present |-> TRUE, stats |-> NoStats, skill |-> "none",
              timestamp |-> now]]
     \/ \E s \in StatsOf(loc[r].game) :
          LET level == assessSkillLevelAdvanced(loc[r].game, s)
          IN /\ apiCache' = [apiCache EXCEPT ![<<loc[r].game, loc[r].account>>] =
                  [present |-> TRUE, stats |-> s, skill |-> level,
                   timestamp |-> now]]
             /\ Goto(r, loc[r].ret, [loc[r] EXCEPT !.stats = s, !.skill = level])
             /\ UNCHANGED last
  /\ UNCHANGED <<rlVars, contrib, calls, opsUsed>>
  /\ UNCHANGED dbVars

\* The provider answers: an error (rethrown), or stats, which are assessed,
\* cached and returned.
FetchProvider(r) ==
  /\ pc[r] = "f_provider"
  /\ \/ /\ \E e \in FetchErrors : Throw(r, e)
        /\ UNCHANGED apiCache
     \/ \E s \in StatsOf(loc[r].game) :
          LET level == assessSkillLevelAdvanced(loc[r].game, s)
          IN /\ apiCache' = [apiCache EXCEPT ![<<loc[r].game, loc[r].account>>] =
                  [present |-> TRUE, stats |-> s, skill |-> level,
                   timestamp |-> now]]
             /\ Goto(r, loc[r].ret, [loc[r] EXCEPT !.stats = s, !.skill = level])
             /\ UNCHANGED last
  /\ UNCHANGED <<rlVars, contrib, calls, opsUsed>>
  /\ UNCHANGED dbVars

\* ------------------------------------------- GameController.verifyPlayerStats
\* db.Proof.findOne({where: {userId, questId}}) has no ORDER BY: the store
\* returns any one matching row, or null when there is none.
NoRow == [id |-> 0]

FindOneProof(u, q) ==
  LET M == {p \in proofs : p.userId = u /\ p.questId = q}
  IN IF M = {} THEN {NoRow} ELSE M

\* if (existingProof && existingProof.verified) -> 400
GateRejects(existingProof) ==
  existingProof.id # 0 /\ existingProof.verified

\* The call starts: Quest.findByPk.
StartVerify(r, u, q, g, a) ==
  /\ IF q \notin Quests
       THEN Answer(r, "verify", u, q, "Quest not found")
       ELSE Begin(r, "verify", u, q, "v_gate",
                  [Idle EXCEPT !.op = "verify", !.userId = u, !.questId = q,
                               !.game = g, !.account = a])
  /\ UNCHANGED <<rlVars, apiCache, contrib>>
  /\ UNCHANGED dbVars

\* The idempotency gate.
VerifyGate(r) ==
  /\ pc[r] = "v_gate"
  /\ \E existingProof \in FindOneProof(loc[r].userId, loc[r].questId) :
       IF GateRejects(existingProof)
         THEN Return(r, "AlreadyVerified")
         ELSE Goto(r, "v_count", loc[r]) /\ UNCHANGED last
  /\ UNCHANGED <<rlVars, apiCache, contrib, calls, opsUsed>>
  /\ UNCHANGED dbVars

RecentAttempts(u, g) ==
  Cardinality({t \in attempts :
                 t.userId = u /\ t.game = g /\ t.attemptedAt >= now - AttemptWindow})

\* The attempt-rate gate: VerificationAttempt.count over the last hour.
VerifyCount(r) ==
  /\ pc[r] = "v_count"
  /\ IF RecentAttempts(loc[r].userId, loc[r].game) >= MaxAttempts
       THEN Return(r, "Too many verification attempts")
       ELSE Goto(r, "v_attempt", loc[r]) /\ UNCHANGED last
  /\ UNCHANGED <<rlVars, apiCache, contrib, calls, opsUsed>>
  /\ UNCHANGED dbVars

\* VerificationAttempt.create, then fetchPlayerStatsWithValidation is entered.
VerifyAttempt(r) ==
  /\ pc[r] = "v_attempt"
  /\ attempts' = attempts \cup
       {[id |-> nextId.attempt, userId |-> loc[r].userId, game |-> loc[r].game,
         attemptedAt |-> now, success |-> FALSE, error |-> "none",
         fraudScore |-> -1]}
  /\ nextId' = [nextId EXCEPT !.attempt = @ + 1]
  /\ Goto(r, "f_entry", [loc[r] EXCEPT !.attemptId = nextId.attempt,
                                       !.ret = "v_analyze"])
  /\ UNCHANGED <<rlVars, apiCache, contrib, calls, opsUsed, last>>
  /\ UNCHANGED <<proofs, progress, leaderboard>>

\* fraudDetector.analyzeStats (it reads the proofs table), then
\* zkTLSService.generateProof, which touches no shared state.
VerifyAnalyze(r) ==
  /\ pc[r] = "v_analyze"
  /\ Goto(r, "v_create",
          [loc[r] EXCEPT !.fraud = analyzeStats(loc[r].game, loc[r].stats,
                                                loc[r].userId)])
  /\ UNCHANGED <<rlVars, apiCache, contrib, calls, opsUsed, last>>
  /\ UNCHANGED dbVars

\* const isVerified = fraudAnalysis < 70
IsVerified(fraudAnalysis) == fraudAnalysis < AutoApproveBelow

\* const needsManualReview = fraudAnalysis >= 50 && fraudAnalysis < 70
NeedsManualReview(fraudAnalysis) ==
  fraudAnalysis >= ReviewFrom /\ fraudAnalysis < AutoApproveBelow

\* db.Proof.create
VerifyCreate(r) ==
  /\ pc[r] = "v_create"
  /\ proofs' = proofs \cup
       {[id |-> nextId.proof, userId |-> loc[r].userId,
         questId |-> loc[r].questId, gameAccount |-> loc[r].account,
         apiSource |-> loc[r].game, fraudScore |-> loc[r].fraud,
         verified |-> IsVerified(loc[r].fraud),
         needsManualReview |-> NeedsManualReview(loc[r].fraud),
         submittedAt |-> now, lastVerified |-> -1, newFraudScore |-> -1,
         blockchainTx |-> FALSE]}
  /\ nextId' = [nextId EXCEPT !.proof = @ + 1]
  /\ last' = [last EXCEPT ![r].made =
                IF IsVerified(loc[r].fraud) THEN nextId.proof ELSE 0]
  /\ Goto(r, IF IsVerified(loc[r].fraud) THEN "u_find" ELSE "v_success",
          [loc[r] EXCEPT !.proofId = nextId.proof, !.ret = "v_chain",
                         !.wrote = @ \cup {"proof"}])
  /\ UNCHANGED <<rlVars, apiCache, contrib, calls, opsUsed>>
  /\ UNCHANGED <<progress, leaderboard, attempts>>

\* ---------------------------------------------------- updateQuestProgress
FindOneProgress(u, q) ==
  LET M == {x \in progress : x.userId = u /\ x.questId = q}
  IN IF M = {} THEN {NoRow} ELSE M

\* db.Progress.findOne and calculateSkillScore
ProgressFind(r) ==
  /\ pc[r] = "u_find"
  /\ \E x \in FindOneProgress(loc[r].userId, loc[r].questId) :
       Goto(r, "u_write",
            [loc[r] EXCEPT !.progId = x.id,
                           !.progScore = IF x.id = 0 THEN 0 ELSE x.score,
                           !.score = calculateSkillScore(loc[r].skill)])
  /\ UNCHANGED <<rlVars, apiCache, contrib, calls, opsUsed, last>>
  /\ UNCHANGED dbVars

\* db.Progress.create, or progress.update on the row read (an UPDATE by
\* primary key: nothing happens when the row is gone); then Quest.findByPk
ProgressWrite(r) ==
  /\ pc[r] = "u_write"
  /\ IF loc[r].progId = 0
       THEN /\ progress' = progress \cup
                 {[id |-> nextId.progress, userId |-> loc[r].userId,
                   questId |-> loc[r].questId, status |-> "verified",
                   score |-> loc[r].score]}
            /\ nextId' = [nextId EXCEPT !.progress = @ + 1]
       ELSE /\ progress' =
                 {IF x.id = loc[r].progId
                    THEN [x EXCEPT !.status = "verified",
                                   !.score = Max(loc[r].progScore, loc[r].score)]
                    ELSE x : x \in progress}
            /\ UNCHANGED nextId
  /\ Goto(r, "l_find", [loc[r] EXCEPT !.worldId = QuestWorld(loc[r].questId),
                                       !.wrote = @ \cup {"progress"}])
  /\ UNCHANGED <<rlVars, apiCache, contrib, calls, opsUsed, last>>
  /\ UNCHANGED <<proofs, leaderboard, attempts>>

\* ------------------------------------------------------- updateLeaderboard
FindOneEntry(u, w) ==
  LET M == {e \in leaderboard : e.userId = u /\ e.worldId = w}
  IN IF M = {} THEN {NoRow} ELSE M

\* db.Leaderboard.findOne
LeaderboardFind(r) ==
  /\ pc[r] = "l_find"
  /\ \E e \in FindOneEntry(loc[r].userId, loc[r].worldId) :
       Goto(r, "l_write",
            [loc[r] EXCEPT !.lbId = e.id,
                           !.lbScore = IF e.id = 0 THEN 0 ELSE e.score])
  /\ UNCHANGED <<rlVars, apiCache, contrib, calls, opsUsed, last>>
  /\ UNCHANGED dbVars

\* existingEntry.update({score: existingEntry.score + score}): the score
\* written is computed from the score read by findOne
EntryScoreAfter(readScore, score) == readScore + score

\* existingEntry.update or db.Leaderboard.create; the caller then goes on
\* (verifyPlayerStats: submitToChain) or answers (completeQuest)
LeaderboardWrite(r) ==
  /\ pc[r] = "l_write"
  /\ IF loc[r].lbId = 0
       THEN /\ leaderboard' = leaderboard \cup
                 {[id |-> nextId.leaderboard, userId |-> loc[r].userId,
                   worldId |-> loc[r].worldId, score |-> loc[r].score]}
            /\ nextId' = [nextId EXCEPT !.leaderboard = @ + 1]
       ELSE /\ leaderboard' =
                 {IF e.id = loc[r].lbId
                    THEN [e EXCEPT !.score =
                            EntryScoreAfter(loc[r].lbScore, loc[r].score)]
                    ELSE e : e \in leaderboard}
            /\ UNCHANGED nextId
  /\ contrib' = [contrib EXCEPT ![<<loc[r].userId, loc[r].worldId>>] =
                   @ + loc[r].score]
  /\ IF loc[r].op = "verify"
       THEN Goto(r, loc[r].ret, [loc[r] EXCEPT !.wrote = @ \cup {"leaderboard"}])
            /\ UNCHANGED last
       ELSE Return(r, "Quest completed")
  /\ UNCHANGED <<rlVars, apiCache, calls, opsUsed>>
  /\ UNCHANGED <<proofs, progress, attempts>>

\* --------------------------------------------- verifyPlayerStats, the end
\* zkTLSService.submitToChain, then proof.save() with the transaction hash;
\* a failed chain submission throws into the catch block
VerifyChain(r) ==
  /\ pc[r] = "v_chain"
  /\ \/ /\ proofs' = {IF p.id = loc[r].proofId
                        THEN [p EXCEPT !.blockchainTx = TRUE] ELSE p : p \in proofs}
        /\ Goto(r, "v_success", loc[r])
        /\ UNCHANGED last
     \/ /\ Throw(r, "Chain submission failed")
        /\ UNCHANGED proofs
  /\ UNCHANGED <<rlVars, apiCache, contrib, calls, opsUsed>>
  /\ UNCHANGED <<progress, leaderboard, attempts, nextId>>

\* verificationAttempt.update({success: true, fraudScore}) and the response
VerifySuccess(r) ==
  /\ pc[r] = "v_success"
  /\ attempts' = {IF t.id = loc[r].attemptId
                    THEN [t EXCEPT !.success = TRUE, !.fraudScore = loc[r].fraud]
                    ELSE t : t \in attempts}
  /\ Return(r, IF IsVerified(loc[r].fraud) THEN "Verification successful"
               ELSE IF NeedsManualReview(loc[r].fraud) THEN "Manual review"
               ELSE "High fraud risk")
  /\ UNCHANGED <<rlVars, apiCache, contrib, calls, opsUsed>>
  /\ UNCHANGED <<proofs, progress, leaderboard, nextId>>

\* "Handle specific error types": the error handed to next(), by its
\* message (AppError 404, 429 or 403); an error no branch matches is
\* rethrown as it is
CatchResponse(game, message) ==
  IF Includes(message, "not found")
    THEN game \o " account not found. Please check your username/ID."
  ELSE IF Includes(message, "rate limit")
    THEN game \o " API rate limit reached. Please try again in a few minutes."
  ELSE IF Includes(message, "private") \/ Includes(message, "visibility")
    THEN "Account profile is private. Please make it public for verification."
  ELSE message

\* (variant: the catch block answers without updating the attempt record)
VerifyCatchNoUpdate(r) ==
  /\ pc[r] = "v_catch"
  /\ Return(r, loc[r].err)
  /\ UNCHANGED <<rlVars, apiCache, contrib, calls, opsUsed>>
  /\ UNCHANGED dbVars

\* catch: verificationAttempt.update({error, fraudScore: 0}) and the error
VerifyCatch(r) ==
  /\ pc[r] = "v_catch"
  /\ attempts' = {IF t.id = loc[r].attemptId
                    THEN [t EXCEPT !.error = loc[r].err, !.fraudScore = 0]
                    ELSE t : t \in attempts}
  /\ Return(r, CatchResponse(loc[r].game, loc[r].err))
  /\ UNCHANGED <<rlVars, apiCache, contrib, calls, opsUsed>>
  /\ UNCHANGED <<proofs, progress, leaderboard, nextId>>

\* A write of the try block (Proof.create, the progress write, the
\* leaderboard write) rejects instead of completing.
FailPcs == {"v_create", "u_write", "l_write"}

PersistenceFails(r) ==
  /\ pc[r] \in FailPcs
  /\ loc[r].op = "verify"
  /\ Throw(r, "persistence error")
  /\ UNCHANGED <<rlVars, apiCache, contrib, calls, opsUsed>>
  /\ UNCHANGED dbVars

\* ------------------------------------------------------------ ZKTLSService
RECURSIVE Join(_)
Join(chars) == IF chars = <<>> THEN "" ELSE Head(chars) \o Join(Tail(chars))

\* JSON.stringify({game, gameAccount, stats, timestamp}): the text hashed;
\* of the stats object, the fields this model carries
JsonStringify(data) ==
  "{\"game\":\"" \o data.game \o "\",\"gameAccount\":\"" \o Join(data.gameAccount)
    \o "\",\"stats\":{\"summonerLevel\":" \o ToString(data.stats.summonerLevel)
    \o ",\"soloQueue\":{\"tier\":\"" \o data.stats.tier
    \o "\",\"rank\":\"" \o data.stats.rank
    \o "\",\"leaguePoints\":" \o ToString(data.stats.leaguePoints)
    \o ",\"wins\":" \o ToString(data.stats.wins)
    \o ",\"losses\":" \o ToString(data.stats.losses)
    \o "}},\"timestamp\":" \o ToString(data.timestamp) \o "}"

\* (variant: the timestamp is not part of the data hashed)
createCommitmentWithoutTimestamp(game, gameAccount, stats, timestamp) ==
  "sha256:" \o JsonStringify([game |-> game, gameAccount |-> gameAccount,
                               stats |-> stats, timestamp |-> 0])

\* createCommitment(game, gameAccount, stats), with the value Date.now()
\* returns inside it as timestamp. The SHA-256 digest is denoted by the
\* text it was computed from: equal texts have equal digests and no two
\* texts collide.
createCommitment(game, gameAccount, stats, timestamp) ==
  "sha256:" \o JsonStringify([game |-> game, gameAccount |-> gameAccount,
                               stats |-> stats, timestamp |-> timestamp])

\* await zkTLSService.generateProof(game, gameAccount, stats)
GenerateProof(r) ==
  /\ pc[r] = "g_call"
  /\ Goto(r, "g_done",
          [loc[r] EXCEPT !.commitment = createCommitment(loc[r].game,
                                          loc[r].account, loc[r].stats, now),
                         !.timestamp = now])
  /\ UNCHANGED <<rlVars, apiCache, contrib, calls, opsUsed, last>>
  /\ UNCHANGED dbVars

\* ------------------------------------------------ GameController.reverifyProof
Admins == {}
ProofIds == {p.id : p \in {x \in proofs : x.questId \in FocusQuests}} \cup {0}

ProofById(pid) == CHOOSE p \in proofs : p.id = pid

\* calculateStatsConsistency returns the score 0.85 for any two stats
calculateStatsConsistencyX100(originalStats, currentStats) == 85

\* zkTLSService.verifyProof returns valid: true for any proof
verifyProofValid == TRUE

\* (variant: the new fraud score is not part of the verdict)
IsStillValidWithoutFraud(originalStats, currentStats, newFraudScore) ==
  /\ verifyProofValid
  /\ calculateStatsConsistencyX100(originalStats, currentStats) > 70

\* isStillValid = verificationResult.valid && consistency.score > 0.7 &&
\*                newFraudScore < 70
IsStillValid(originalStats, currentStats, newFraudScore) ==
  /\ verifyProofValid
  /\ calculateStatsConsistencyX100(originalStats, currentStats) > 70
  /\ newFraudScore < AutoApproveBelow

\* (variant: no staleness check)
StartReverifyAnyAge(r, requester, pid) ==
  /\ IF ~\E p \in proofs : p.id = pid
       THEN Answer(r, "reverify", requester, 0, "Proof not found")
     ELSE IF ProofById(pid).userId # requester /\ requester \notin Admins
       THEN Answer(r, "reverify", requester, ProofById(pid).questId, "Access denied")
     ELSE Begin(r, "reverify", requester, ProofById(pid).questId, "f_entry",
                [Idle EXCEPT !.op = "reverify", !.userId = ProofById(pid).userId,
                             !.questId = ProofById(pid).questId,
                             !.game = ProofById(pid).apiSource,
                             !.account = ProofById(pid).gameAccount,
                             !.proofId = pid, !.ret = "rv_analyze"])
  /\ UNCHANGED <<rlVars, apiCache, contrib>>
  /\ UNCHANGED dbVars

\* Proof.findByPk, the authorization check and the staleness check; then
\* fetchPlayerStatsWithValidation is entered.
StartReverify(r, requester, pid) ==
  /\ IF ~\E p \in proofs : p.id = pid
       THEN Answer(r, "reverify", requester, 0, "Proof not found")
     ELSE IF ProofById(pid).userId # requester /\ requester \notin Admins
       THEN Answer(r, "reverify", requester, ProofById(pid).questId, "Access denied")
     ELSE IF now - ProofById(pid).submittedAt > Day
       THEN Answer(r, "reverify", requester, ProofById(pid).questId,
                   "Proof is too old to re-verify")
     ELSE Begin(r, "reverify", requester, ProofById(pid).questId, "f_entry",
                [Idle EXCEPT !.op = "reverify", !.userId = ProofById(pid).userId,
                             !.questId = ProofById(pid).questId,
                             !.game = ProofById(pid).apiSource,
                             !.account = ProofById(pid).gameAccount,
                             !.proofId = pid, !.ret = "rv_analyze"])
  /\ UNCHANGED <<rlVars, apiCache, contrib>>
  /\ UNCHANGED dbVars

\* fraudDetector.analyzeStats on the stats just fetched, zkTLSService.verifyProof
ReverifyAnalyze(r) ==
  /\ pc[r] = "rv_analyze"
  /\ Goto(r, "rv_update",
          [loc[r] EXCEPT !.fraud = analyzeStats(loc[r].game, loc[r].stats,
                                                loc[r].userId)])
  /\ UNCHANGED <<rlVars, apiCache, contrib, calls, opsUsed, last>>
  /\ UNCHANGED dbVars

\* proof.update({verified: isStillValid, lastVerified, statFetched: {...
\* reVerification: {newFraudScore}}}): statFetched.fraudScore is kept
ReverifyUpdate(r) ==
  /\ pc[r] = "rv_update"
  /\ proofs' = {IF p.id = loc[r].proofId
                  THEN [p EXCEPT !.verified =
                                   IsStillValid(NoStats, loc[r].stats, loc[r].fraud),
                                 !.lastVerified = now,
                                 !.newFraudScore = loc[r].fraud]
                  ELSE p : p \in proofs}
  /\ Return(r, "Proof re-verified")
  /\ UNCHANGED <<rlVars, apiCache, contrib, calls, opsUsed>>
  /\ UNCHANGED <<progress, leaderboard, attempts, nextId>>

\* ---------------------------------------- GameController.deleteMyVerification
\* Proof.findOne({proofId, userId}) and the 24 hour rule
StartDelete(r, u, pid) ==
  /\ IF ~\E p \in proofs : p.id = pid /\ p.userId = u
       THEN Answer(r, "delete", u, 0, "Proof not found or access denied")
     ELSE IF ProofById(pid).verified /\ now - ProofById(pid).submittedAt > Day
       THEN Answer(r, "delete", u, ProofById(pid).questId,
                   "Cannot delete verified proofs older than 24 hours")
     ELSE Begin(r, "delete", u, ProofById(pid).questId, "d_destroy",
                [Idle EXCEPT !.op = "delete", !.userId = u,
                             !.questId = ProofById(pid).questId, !.proofId = pid])
  /\ UNCHANGED <<rlVars, apiCache, contrib>>
  /\ UNCHANGED dbVars

\* proof.destroy()
DeleteDestroy(r) ==
  /\ pc[r] = "d_destroy"
  /\ proofs' = {p \in proofs : p.id # loc[r].proofId}
  /\ Return(r, "Verification deleted")
  /\ UNCHANGED <<rlVars, apiCache, contrib, calls, opsUsed>>
  /\ UNCHANGED <<progress, leaderboard, attempts, nextId>>

\* ------------------------------------------- legacy POST /:proofId/verify
\* Proof.findByPk; any authenticated user may call the route
StartLegacyVerify(r, u, pid) ==
  /\ IF ~\E p \in proofs : p.id = pid
       THEN Answer(r, "legacyVerify", u, 0, "Proof not found")
       ELSE Begin(r, "legacyVerify", u, ProofById(pid).questId, "lg_update",
                  [Idle EXCEPT !.op = "legacyVerify", !.userId = u,
                               !.questId = ProofById(pid).questId,
                               !.proofId = pid])
  /\ UNCHANGED <<rlVars, apiCache, contrib>>
  /\ UNCHANGED dbVars

\* zkTLSService.verifyProof, then proof.update({verified: valid})
LegacyUpdate(r) ==
  /\ pc[r] = "lg_update"
  /\ proofs' = {IF p.id = loc[r].proofId
                  THEN [p EXCEPT !.verified = verifyProofValid] ELSE p : p \in proofs}
  /\ Return(r, "verified")
  /\ UNCHANGED <<rlVars, apiCache, contrib, calls, opsUsed>>
  /\ UNCHANGED <<progress, leaderboard, attempts, nextId>>

\* ------------------------------------------------ QuestController.startQuest
\* Quest.findByPk and Progress.findOne
StartStartQuest(r, u, q) ==
  /\ IF \E x \in progress : x.userId = u /\ x.questId = q
       THEN Answer(r, "startQuest", u, q, "Quest already started")
       ELSE Begin(r, "startQuest", u, q, "s_create",
                  [Idle EXCEPT !.op = "startQuest", !.userId = u, !.questId = q])
  /\ UNCHANGED <<rlVars, apiCache, contrib>>
  /\ UNCHANGED dbVars

\* Progress.create({userId, questId, status: 'in_progress'})
StartQuestCreate(r) ==
  /\ pc[r] = "s_create"
  /\ progress' = progress \cup
       {[id |-> nextId.progress, userId |-> loc[r].userId,
         questId |-> loc[r].questId, status |-> "in_progress", score |-> 0]}
  /\ nextId' = [nextId EXCEPT !.progress = @ + 1]
  /\ Return(r, "Quest started")
  /\ UNCHANGED <<rlVars, apiCache, contrib, calls, opsUsed>>
  /\ UNCHANGED <<proofs, leaderboard, attempts>>

\* --------------------------------------------- QuestController.completeQuest
\* Progress.findOne (with its Quest) and the three refusals
StartCompleteQuest(r, u, q, score) ==
  /\ \E x \in FindOneProgress(u, q) :
       IF x.id = 0
         THEN Answer(r, "completeQuest", u, q, "Quest not started")
       ELSE IF x.status = "verified"
         THEN Answer(r, "completeQuest", u, q, "Quest already completed")
       ELSE IF ProofRequired(q)
         THEN Answer(r, "completeQuest", u, q, "This quest requires verification proof")
       ELSE Begin(r, "completeQuest", u, q, "c_update",
                  [Idle EXCEPT !.op = "completeQuest", !.userId = u,
                               !.questId = q, !.progId = x.id,
                               !.progScore = x.score, !.score = score,
                               !.worldId = QuestWorld(q)])
  /\ UNCHANGED <<rlVars, apiCache, contrib>>
  /\ UNCHANGED dbVars

\* progress.update({status: 'completed', score: max(progress.score, score)}),
\* then updateLeaderboard(userId, worldId, score)
CompleteUpdate(r) ==
  /\ pc[r] = "c_update"
  /\ progress' =
       {IF x.id = loc[r].progId
          THEN [x EXCEPT !.status = "completed",
                         !.score = Max(loc[r].progScore, loc[r].score)]
          ELSE x : x \in progress}
  /\ Goto(r, "l_find", loc[r])
  /\ UNCHANGED <<rlVars, apiCache, contrib, calls, opsUsed, last>>
  /\ UNCHANGED <<proofs, leaderboard, attempts, nextId>>

\* ---------------------------------------------- QuestController.abandonQuest
\* Progress.findOne and the two refusals
StartAbandonQuest(r, u, q) ==
  /\ \E x \in FindOneProgress(u, q) :
       IF x.id = 0
         THEN Answer(r, "abandonQuest", u, q, "Quest progress not found")
       ELSE IF x.status = "verified"
         THEN Answer(r, "abandonQuest", u, q, "Cannot abandon a completed quest")
       ELSE Begin(r, "abandonQuest", u, q, "ab_destroy",
                  [Idle EXCEPT !.op = "abandonQuest", !.userId = u,
                               !.questId = q, !.progId = x.id])
  /\ UNCHANGED <<rlVars, apiCache, contrib>>
  /\ UNCHANGED dbVars

\* progress.destroy()
AbandonDestroy(r) ==
  /\ pc[r] = "ab_destroy"
  /\ progress' = {x \in progress : x.id # loc[r].progId}
  /\ Return(r, "Quest abandoned")
  /\ UNCHANGED <<rlVars, apiCache, contrib, calls, opsUsed>>
  /\ UNCHANGED <<proofs, leaderboard, attempts, nextId>>

\* ------------------------------------------- POST /complete of Routes/quests
\* Progress.findOne; refused when there is no record or its status is
\* 'completed'
StartRouteComplete(r, u, q, score) ==
  /\ \E x \in FindOneProgress(u, q) :
       IF x.id = 0
         THEN Answer(r, "routeComplete", u, q, "Quest progress not found")
       ELSE IF x.status = "completed"
         THEN Answer(r, "routeComplete", u, q, "Quest already completed")
       ELSE Begin(r, "routeComplete", u, q, "rc_update",
                  [Idle EXCEPT !.op = "routeComplete", !.userId = u,
                               !.questId = q, !.progId = x.id, !.score = score])
  /\ UNCHANGED <<rlVars, apiCache, contrib>>
  /\ UNCHANGED dbVars

\* progress.update({status: 'completed', score: score || 0}); then
\* Quest.findByPk and this.updateLeaderboard(...), which is not a function
\* of the module's `this`: the TypeError is caught and answered with 500
RouteCompleteUpdate(r) ==
  /\ pc[r] = "rc_update"
  /\ progress' =
       {IF x.id = loc[r].progId
          THEN [x EXCEPT !.status = "completed", !.score = loc[r].score]
          ELSE x : x \in progress}
  /\ Return(r, "Failed to complete quest")
  /\ UNCHANGED <<rlVars, apiCache, contrib, calls, opsUsed>>
  /\ UNCHANGED <<proofs, leaderboard, attempts, nextId>>

\* A call of the helper updateQuestProgress(userId, questId, skillLevel) on
\* its own, as an accepted submission makes it.
StartUpdateQuestProgress(r, u, q, skillLevel) ==
  /\ Begin(r, "updateQuestProgress", u, q, "u_find",
           [Idle EXCEPT !.op = "updateQuestProgress", !.userId = u,
                        !.questId = q, !.skill = skillLevel])
  /\ UNCHANGED <<rlVars, apiCache, contrib>>
  /\ UNCHANGED dbVars

\* ------------------------------------------------------------ specifications
Start(r) ==
  \/ \E u \in ActiveUsers, q \in VerifyQuests, g \in SubmitGames, a \in Accounts :
       StartVerify(r, u, q, g, a)
  \/ \E u \in Users, pid \in ProofIds : StartReverify(r, u, pid)
  \/ \E u \in ActiveUsers, pid \in ProofIds : StartDelete(r, u, pid)
  \/ \E u \in ActiveUsers, pid \in ProofIds : StartLegacyVerify(r, u, pid)
  \/ \E u \in ActiveUsers, q \in FocusQuests : StartStartQuest(r, u, q)
  \/ \E u \in ActiveUsers, q \in FocusQuests, s \in CompleteScores :
       StartCompleteQuest(r, u, q, s)

VerifySteps(r) ==
  \/ VerifyGate(r)
  \/ VerifyCount(r)
  \/ VerifyAttempt(r)
  \/ FetchEntry(r)
  \/ FetchProvider(r)
  \/ VerifyAnalyze(r)
  \/ VerifyCreate(r)
  \/ ProgressFind(r)
  \/ ProgressWrite(r)
  \/ LeaderboardFind(r)
  \/ LeaderboardWrite(r)
  \/ VerifyChain(r)
  \/ VerifySuccess(r)
  \/ VerifyCatch(r)

QuestSteps(r) ==
  \/ StartQuestCreate(r)
  \/ CompleteUpdate(r)

ProofSteps(r) ==
  \/ ReverifyAnalyze(r)
  \/ ReverifyUpdate(r)
  \/ DeleteDestroy(r)
  \/ LegacyUpdate(r)

Step(r) ==
  \/ VerifySteps(r)
  \/ QuestSteps(r)
  \/ ProofSteps(r)
  \/ PersistenceFails(r)

\* Requests are handled concurrently: any slot may start a call or take the
\* next step of its handler.
Next ==
  \/ Tick
  \/ \E r \in Reqs : Start(r)
  \/ \E r \in Reqs : Step(r)

Spec == Init /\ [][Next]_vars

\* Calls executed one at a time: a call starts only when none is running,
\* and time passes between calls.
NextSeq ==
  \/ AllIdle /\ Tick
  \/ AllIdle /\ Start(1)
  \/ Step(1)

SpecSeq == Init /\ [][NextSeq]_vars

\* Concurrent submissions and quest completions of one user: the calls that
\* reach updateQuestProgress and updateLeaderboard, with well-formed accounts.
StartConc(r) ==
  \/ \E u \in ActiveUsers, a \in {AcctA, AcctB} : StartVerify(r, u, 1, Lol, a)
  \/ \E u \in ActiveUsers : StartStartQuest(r, u, 2)
  \/ \E u \in ActiveUsers, s \in CompleteScores : StartCompleteQuest(r, u, 2, s)

NextConc ==
  \/ \E r \in Reqs : StartConc(r)
  \/ \E r \in Reqs : VerifySteps(r)
  \/ \E r \in Reqs : QuestSteps(r)

SpecConc == Init /\ [][NextConc]_vars

\* Concurrent submissions of one user for one game up to the end of the
\* attempt gate and the gates of the fetch: the user has three earlier
\* valorant attempts in the hour or none, and submits an account the format
\* gate refuses, so each call ends in the catch block.
NextAttempts ==
  \/ \E r \in Reqs, u \in ActiveUsers : StartVerify(r, u, 1, Valorant, AcctA)
  \/ \E r \in Reqs :
       \/ VerifyGate(r) \/ VerifyCount(r) \/ VerifyAttempt(r)
       \/ FetchEntry(r) \/ VerifyCatch(r)

SpecAttempts == Init /\ [][NextAttempts]_vars

\* The rate limiter on its own: one game's limit and window are drawn from
\* small values, the clock advances by single milliseconds.
RLGames == {Valorant}
RLConfigs == [requests : 1..MaxLimit, window : 1..MaxWindow]

InitRL ==
  /\ now = 0
  /\ ticks = 0
  /\ \E c \in RLConfigs :
       rateLimit = [g \in Games |-> IF g \in RLGames THEN c ELSE DefaultRateLimit[g]]
  /\ rateLimitStore = [k \in RateKeys |-> <<>>]
  /\ rlLog = [k \in RateKeys |-> <<>>]
  /\ rlRes = NoCall
  /\ apiCache = [k \in CacheKeys |-> NoEntry]
  /\ proofs = {} /\ progress = {} /\ leaderboard = {} /\ attempts = {}
  /\ nextId = [proof |-> 1, progress |-> 1, leaderboard |-> 1, attempt |-> 1]
  /\ pc = [r \in Reqs |-> "idle"]
  /\ loc = [r \in Reqs |-> Idle]
  /\ last = [r \in Reqs |-> NoLast]
  /\ contrib = [k \in Users \X Worlds |-> 0]
  /\ calls = 0
  /\ opsUsed = {}

NextRL ==
  \/ TickMs
  \/ \E g \in RLGames, u \in Users : CheckRateLimit(g, u)

SpecRL == InitRL /\ [][NextRL]_vars

\* Concurrent requests reaching checkRateLimit: a request enters
\* fetchPlayerStatsWithValidation and is about to make the call; the call
\* itself runs from the read of the store to the write without an await.
EnterCheck(r) ==
  /\ pc[r] # "rl_call"
  /\ calls < MaxCalls
  /\ calls' = calls + 1
  /\ \E g \in RLGames, u \in Users :
       Goto(r, "rl_call", [Idle EXCEPT !.op = "checkRateLimit", !.game = g,
                                       !.userId = u])
  /\ UNCHANGED <<rlVars, apiCache, contrib, opsUsed, last>>
  /\ UNCHANGED dbVars

RacingCheck(r) ==
  /\ pc[r] = "rl_call"
  /\ rateLimitStore' = StoreAfterCheck(loc[r].game, loc[r].userId)
  /\ rlLog' = LogAfterCheck(loc[r].game, loc[r].userId)
  /\ rlRes' = CallRecord(loc[r].game, loc[r].userId)
  /\ Goto(r, IF RateLimitExceeded(loc[r].game, loc[r].userId)
               THEN "rl_denied" ELSE "rl_allowed",
          [loc[r] EXCEPT !.timestamp = now])
  /\ UNCHANGED <<now, ticks, rateLimit, apiCache, contrib, calls, opsUsed, last>>
  /\ UNCHANGED dbVars

NextRLRace ==
  \/ TickMs
  \/ \E r \in Reqs : EnterCheck(r) \/ RacingCheck(r)

SpecRLRace == InitRL /\ [][NextRLRace]_vars

\* Submissions of one user, one at a time, against an empty store, with the
\* league_of_legends limit set low through updateApiLimits (the window is the
\* constructor's) and a clock that advances by the cache TTL or by one
\* millisecond less.
GateLimits ==
  [requests : 1..MaxLimit, window : {DefaultRateLimit[Lol].window}]

GateTickSteps == {CacheTtl - 1, CacheTtl}

InitGate ==
  /\ now = 0
  /\ ticks = 0
  /\ \E c \in GateLimits : rateLimit = [DefaultRateLimit EXCEPT ![Lol] = c]
  /\ rateLimitStore = [k \in RateKeys |-> <<>>]
  /\ rlLog = [k \in RateKeys |-> <<>>]
  /\ rlRes = NoCall
  /\ apiCache = [k \in CacheKeys |-> NoEntry]
  /\ proofs = {} /\ progress = {} /\ leaderboard = {} /\ attempts = {}
  /\ nextId = [proof |-> 1, progress |-> 1, leaderboard |-> 1, attempt |-> 1]
  /\ pc = [r \in Reqs |-> "idle"]
  /\ loc = [r \in Reqs |-> Idle]
  /\ last = [r \in Reqs |-> NoLast]
  /\ contrib = [k \in Users \X Worlds |-> 0]
  /\ calls = 0
  /\ opsUsed = {}

TickGate ==
  /\ ticks < MaxGateTicks
  /\ \E d \in GateTickSteps : now' = now + d
  /\ ticks' = ticks + 1
  /\ UNCHANGED <<rateLimit, rateLimitStore, rlLog, rlRes, apiCache, contrib>>
  /\ UNCHANGED dbVars
  /\ UNCHANGED reqVars

StartGate(r) ==
  /\ calls < MaxGateCalls
  /\ \E u \in ActiveUsers, q \in FocusQuests, a \in {AcctA, AcctBad} :
       StartVerify(r, u, q, Lol, a)

NextGate ==
  \/ AllIdle /\ TickGate
  \/ AllIdle /\ StartGate(1)
  \/ VerifySteps(1)
  \/ PersistenceFails(1)

SpecGate == InitGate /\ [][NextGate]_vars

\* Submissions of one user and re-verifications (reverifyProof and the
\* legacy verify route) requested by either user, one call at a time, with
\* time passing between calls: past the cache lifetime, or past a day.
TickReverify ==
  /\ ticks < MaxReverifyTicks
  /\ \E d \in TickSteps : now' = now + d
  /\ ticks' = ticks + 1
  /\ UNCHANGED <<rateLimit, rateLimitStore, rlLog, rlRes, apiCache, contrib>>
  /\ UNCHANGED dbVars
  /\ UNCHANGED reqVars

StartReverifySpec(r) ==
  /\ calls < MaxReverifyCalls
  /\ \/ \E u \in ActiveUsers : StartVerify(r, u, 1, Lol, AcctA)
     \/ \E u \in Users, pid \in ProofIds : StartReverify(r, u, pid)
     \/ \E u \in Users, pid \in ProofIds : StartLegacyVerify(r, u, pid)

NextReverify ==
  \/ AllIdle /\ TickReverify
  \/ AllIdle /\ StartReverifySpec(1)
  \/ VerifySteps(1)
  \/ ReverifyAnalyze(1)
  \/ ReverifyUpdate(1)
  \/ LegacyUpdate(1)

SpecReverify == Init /\ [][NextReverify]_vars

\* The quest operations of one user, handled concurrently: startQuest,
\* completeQuest (scores as the request body gives them, unvalidated) and
\* the helper updateQuestProgress with every skill level on a quest without
\* proof requirement (2), the /complete route on a quest of an earlier
\* verification (3), abandonQuest on both.
NextQuest ==
  \/ \E r \in Reqs, u \in ActiveUsers :
       \/ StartStartQuest(r, u, 2)
       \/ \E q \in {2, 3} : StartAbandonQuest(r, u, q)
       \/ \E score \in {-5, 10} : StartCompleteQuest(r, u, 2, score)
       \/ StartRouteComplete(r, u, 3, 10)
       \/ \E skillLevel \in {"Novice", "Beginner", "Intermediate",
                               "Intermediate+", "Advanced", "Expert"} :
            StartUpdateQuestProgress(r, u, 2, skillLevel)
  \/ \E r \in Reqs :
       \/ QuestSteps(r)
       \/ AbandonDestroy(r)
       \/ RouteCompleteUpdate(r)
       \/ ProgressFind(r) \/ ProgressWrite(r)
       \/ LeaderboardFind(r) \/ LeaderboardWrite(r)

SpecQuest == Init /\ [][NextQuest]_vars

\* zkTLSService.generateProof on its own: two calls, their games, accounts
\* and stats drawn from small sets, made at any millisecond of the clock.
InitCommit ==
  /\ now = 0
  /\ ticks = 0
  /\ rateLimit = DefaultRateLimit
  /\ rateLimitStore = [k \in RateKeys |-> <<>>]
  /\ rlLog = [k \in RateKeys |-> <<>>]
  /\ rlRes = NoCall
  /\ apiCache = [k \in CacheKeys |-> NoEntry]
  /\ proofs = {} /\ progress = {} /\ leaderboard = {} /\ attempts = {}
  /\ nextId = [proof |-> 1, progress |-> 1, leaderboard |-> 1, attempt |-> 1]
  /\ last = [r \in Reqs |-> NoLast]
  /\ contrib = [k \in Users \X Worlds |-> 0]
  /\ calls = 0
  /\ opsUsed = {}
  /\ \E c \in [Reqs -> [game : {Lol, Valorant}, account : {AcctA, AcctB},
                         stats : {LolClean, LolSmurf}]] :
       /\ pc = [r \in Reqs |-> "g_call"]
       /\ loc = [r \in Reqs |->
                   [Idle EXCEPT !.op = "generateProof", !.game = c[r].game,
                                !.account = c[r].account, !.stats = c[r].stats]]

NextCommit ==
  \/ TickMs
  \/ \E r \in Reqs : GenerateProof(r)

SpecCommit == InitCommit /\ [][NextCommit]_vars

\* FraudDetectionService.analyzeStats on its own: the game, the stats, the
\* user and the user's proofs of the last 24 hours are drawn from small sets.
FraudStats(game) ==
  CASE game = Lol ->
         {[NoStats EXCEPT !.summonerLevel = lv, !.hasSolo = TRUE, !.tier = t,
                          !.wins = wl[1], !.losses = wl[2], !.averageKDAx10 = k] :
            lv \in {30, 120}, t \in {"IRON", "GOLD", "UNRANKED"},
            wl \in {<<58, 2>>, <<55, 45>>, <<0, 0>>}, k \in {21, 45}}
    [] game = Valorant ->
         {[NoStats EXCEPT !.accountLevel = lv, !.tier = t, !.headShotX100 = hs] :
            lv \in {10, 50}, t \in {"Unranked", "Gold"}, hs \in {3000, 6500}}
    [] OTHER ->
         {[NoStats EXCEPT !.kdrX100 = k, !.headShotX100 = hs] :
            k \in {100, 350}, hs \in {5000, 7500}}

InitFraud ==
  /\ now \in {0, Day + 1}
  /\ ticks = 0
  /\ rateLimit = DefaultRateLimit
  /\ rateLimitStore = [k \in RateKeys |-> <<>>]
  /\ rlLog = [k \in RateKeys |-> <<>>]
  /\ rlRes = NoCall
  /\ apiCache = [k \in CacheKeys |-> NoEntry]
  /\ \E Q \in {{}, PriorQuests} :
       /\ proofs = PriorProofs(Q)
       /\ progress = PriorProgress(Q)
       /\ leaderboard = PriorLeaderboard(Q)
       /\ attempts = PriorAttempts(Q)
       /\ nextId = [proof |-> Cardinality(Q) + 1, progress |-> Cardinality(Q) + 1,
                    leaderboard |-> Cardinality(PriorLeaderboard(Q)) + 1,
                    attempt |-> Cardinality(Q) + 1]
       /\ contrib = [k \in Users \X Worlds |->
                       EntryScore(PriorLeaderboard(Q), k[1], k[2])]
  /\ \E g \in Games, u \in Users :
       \E st \in FraudStats(g) :
         /\ pc = [r \in Reqs |-> IF r = 1 THEN "a_call" ELSE "idle"]
         /\ loc = [r \in Reqs |->
                     IF r = 1
                       THEN [Idle EXCEPT !.op = "analyze", !.userId = u,
                                         !.game = g, !.stats = st]
                       ELSE Idle]
  /\ last = [r \in Reqs |-> NoLast]
  /\ calls = 0
  /\ opsUsed = {}

\* await fraudDetector.analyzeStats(game, gameAccount, stats, userId)
AnalyzeCall(r) ==
  /\ pc[r] = "a_call"
  /\ Goto(r, "a_done",
          [loc[r] EXCEPT !.fraud = analyzeStats(loc[r].game, loc[r].stats,
                                                loc[r].userId)])
  /\ UNCHANGED <<rlVars, apiCache, contrib, calls, opsUsed, last>>
  /\ UNCHANGED dbVars

NextFraud == AnalyzeCall(1)

SpecFraud == InitFraud /\ [][NextFraud]_vars

\* analyzeStats after six submissions of user 1 at time 0 of which only those
\* for the quests of P went through: the others ended in the catch block of
\* verifyPlayerStats, which leaves the VerificationAttempt and no Proof.
InitBehavior ==
  /\ now \in {0, Day + 1}
  /\ ticks = 0
  /\ rateLimit = DefaultRateLimit
  /\ rateLimitStore = [k \in RateKeys |-> <<>>]
  /\ rlLog = [k \in RateKeys |-> <<>>]
  /\ rlRes = NoCall
  /\ apiCache = [k \in CacheKeys |-> NoEntry]
  /\ \E P \in {{}, {3, 4, 6, 7, 8}, PriorQuests} :
       /\ proofs = PriorProofs(P)
       /\ progress = PriorProgress(P)
       /\ leaderboard = PriorLeaderboard(P)
       /\ attempts =
            {IF t.id + 2 \in P
               THEN t
               ELSE [t EXCEPT !.success = FALSE, !.error = "Failed to fetch stats"]
             : t \in PriorAttempts(PriorQuests)}
       /\ nextId = [proof |-> 7, progress |-> 7,
                    leaderboard |-> Cardinality(PriorLeaderboard(P)) + 1,
                    attempt |-> 7]
       /\ contrib = [k \in Users \X Worlds |->
                       EntryScore(PriorLeaderboard(P), k[1], k[2])]
  /\ \E g \in Games, u \in Users :
       \E st \in FraudStats(g) :
         /\ pc = [r \in Reqs |-> IF r = 1 THEN "a_call" ELSE "idle"]
         /\ loc = [r \in Reqs |->
                     IF r = 1
                       THEN [Idle EXCEPT !.op = "analyze", !.userId = u,
                                         !.game = g, !.stats = st]
                       ELSE Idle]
  /\ last = [r \in Reqs |-> NoLast]
  /\ calls = 0
  /\ opsUsed = {}

SpecBehavior == InitBehavior /\ [][NextFraud]_vars

\* assessSkillLevelAdvanced on its own: two calls for one game, the stats of
\* each drawn from values on both sides of every threshold of the branch.
InitSkill ==
  /\ now = 0
  /\ ticks = 0
  /\ rateLimit = DefaultRateLimit
  /\ rateLimitStore = [k \in RateKeys |-> <<>>]
  /\ rlLog = [k \in RateKeys |-> <<>>]
  /\ rlRes = NoCall
  /\ apiCache = [k \in CacheKeys |-> NoEntry]
  /\ proofs = {} /\ progress = {} /\ leaderboard = {} /\ attempts = {}
  /\ nextId = [proof |-> 1, progress |-> 1, leaderboard |-> 1, attempt |-> 1]
  /\ last = [r \in Reqs |-> NoLast]
  /\ contrib = [k \in Users \X Worlds |-> 0]
  /\ calls = 0
  /\ opsUsed = {}
  /\ pc = [r \in Reqs |-> "k_call"]
  /\ \E g \in Games :
       LET S == CASE g = Lol ->
                     {[NoStats EXCEPT !.hasSolo = TRUE, !.tier = t, !.rank = rk,
                                      !.leaguePoints = lp, !.wins = wl[1],
                                      !.losses = wl[2], !.averageKDAx10 = k] :
                        t \in {"IRON", "SILVER", "CHALLENGER", "UNRANKED"},
                        rk \in {"I", "IV"}, lp \in {0, 100},
                        wl \in {<<40, 60>>, <<50, 50>>, <<61, 39>>},
                        k \in {5, 15, 21}}
                 [] g = Valorant ->
                     {[NoStats EXCEPT !.tier = t, !.rr = rr, !.kdrX100 = k,
                                      !.headShotX100 = hs] :
                        t \in {"Iron", "Bronze", "Gold", "Unranked"},
                        rr \in {0, 70, 99}, k \in {70, 100, 130},
                        hs \in {2000, 3000}}
                 [] OTHER ->
                     {[NoStats EXCEPT !.kdrX100 = k, !.winRateX100 = w,
                                      !.headShotX100 = hs, !.utilityScore = us] :
                        k \in {50, 70, 110, 160}, w \in {4000, 5100, 6100},
                        hs \in {3000, 4500, 5500}, us \in {50, 150}}
       IN \E c \in [Reqs -> S] :
            loc = [r \in Reqs |->
                     [Idle EXCEPT !.op = "assess", !.game = g, !.stats = c[r]]]

\* skillLevel = this.assessSkillLevelAdvanced(game, stats)
AssessCall(r) ==
  /\ pc[r] = "k_call"
  /\ Goto(r, "k_done",
          [loc[r] EXCEPT !.skill = assessSkillLevelAdvanced(loc[r].game,
                                                            loc[r].stats)])
  /\ UNCHANGED <<rlVars, apiCache, contrib, calls, opsUsed, last>>
  /\ UNCHANGED dbVars

NextSkill == \E r \in Reqs : AssessCall(r)

SpecSkill == InitSkill /\ [][NextSkill]_vars

\* ----------------------------------------------- rate limiter properties
InWindow(log, t, w) == {i \in DOMAIN log : log[i] > t - w /\ log[i] <= t}

IsSuffix(s, t) ==
  /\ Len(s) <= Len(t)
  /\ \A i \in 1..Len(s) : s[i] = t[Len(t) - Len(s) + i]

\* C9: checkRateLimit allows a call for key (game, userId) exactly when fewer
\* than `requests` previously allowed calls of that key lie in the trailing
\* window (timestamp > now - window); only allowed calls are recorded (in the
\* history and in the store, which holds nothing but allowed timestamps); so
\* no window (t - W, t] ever holds more than `requests` allowed calls.
C9_RateLimiterContract ==
  /\ rlRes.game # "none" =>
       LET k == <<rlRes.game, rlRes.userId>>
           cfg == rateLimit[rlRes.game]
       IN /\ rlRes.ok <=>
               Cardinality(InWindow(rlRes.prior, rlRes.at, cfg.window)) < cfg.requests
          /\ rlLog[k] = IF rlRes.ok THEN Append(rlRes.prior, rlRes.at) ELSE rlRes.prior
  /\ \A k \in RateKeys :
       /\ IsSuffix(rateLimitStore[k], rlLog[k])
       /\ \A t \in 0..now :
            Cardinality(InWindow(rlLog[k], t, rateLimit[k[1]].window))
              <= rateLimit[k[1]].requests

\* A call is denied with the window full, after earlier timestamps of the
\* same key had left the window and let the key be allowed again.
C9_Witness ==
  /\ rlRes.game # "none"
  /\ ~rlRes.ok
  /\ Len(rlLog[<<rlRes.game, rlRes.userId>>]) > rateLimit[rlRes.game].requests
  /\ Cardinality(InWindow(rlRes.prior, rlRes.at, rateLimit[rlRes.game].window))
       = rateLimit[rlRes.game].requests

\* ------------------------------------------ proof and progress properties
VerifiedProofs(u, q) ==
  {p \in proofs : p.userId = u /\ p.questId = q /\ p.verified}

ProgressVerified(u, q) ==
  \E x \in progress : x.userId = u /\ x.questId = q /\ x.status = "verified"

OnlyCalled(ops) == opsUsed \subseteq ops

\* C1: of two verifyPlayerStats calls for the same (userId, questId) that run
\* concurrently, at most one persists a verified Proof.
C1_OneRacingSubmissionPersists ==
  \A r1 \in Reqs, r2 \in Reqs :
    ( /\ r1 # r2
      /\ last[r1].op = "verify" /\ last[r2].op = "verify"
      /\ last[r1].overlap /\ last[r2].overlap
      /\ last[r1].userId = last[r2].userId
      /\ last[r1].questId = last[r2].questId )
    => ~(last[r1].made # 0 /\ last[r2].made # 0)

\* C2: in every state reached by verifyPlayerStats, reverifyProof and
\* deleteMyVerification calls that run one at a time, at most one verified
\* Proof exists for each (userId, questId).
C2_AtMostOneVerifiedProof ==
  OnlyCalled({"verify", "reverify", "delete"}) =>
    \A u \in Users, q \in Quests : Cardinality(VerifiedProofs(u, q)) <= 1

\* C3: while a verified Proof exists for (userId, questId), no
\* verifyPlayerStats call for that pair gets past the idempotency gate
\* (to the attempt count, the attempt record, the fetch and the writes),
\* whatever other Proofs exist for the pair.
C3_VerifiedProofStopsSubmission ==
  \A r \in Reqs :
    (loc[r].op = "verify" /\ pc[r] = "v_count")
      => VerifiedProofs(loc[r].userId, loc[r].questId) = {}

\* C4: the Proof a scored submission has persisted is verified exactly when its
\* fraud score is below 50, needs manual review exactly when the score is in
\* [50, 70), and is neither when the score is 70 or more.
C4_PersistedVerdict ==
  \A r \in Reqs :
    (loc[r].op = "verify" /\ loc[r].proofId # 0) =>
      \A p \in proofs :
        p.id = loc[r].proofId =>
          /\ p.verified <=> p.fraudScore < ReviewFrom
          /\ p.needsManualReview <=>
               (p.fraudScore >= ReviewFrom /\ p.fraudScore < AutoApproveBelow)

\* C5: a submission whose fraud score is in [50, 70) applies no score: it
\* reaches neither updateQuestProgress nor updateLeaderboard nor the chain
\* submission, so the ProgressRecord keeps its status.
C5_ReviewBandAppliesNoScore ==
  \A r \in Reqs :
    ( /\ loc[r].op = "verify" /\ loc[r].proofId # 0
      /\ loc[r].fraud >= ReviewFrom /\ loc[r].fraud < AutoApproveBelow )
    => pc[r] \notin {"u_find", "u_write", "l_find", "l_write", "v_chain"}

\* C6: in every state reached by submissions, re-verifications and the legacy
\* proof-verify route, a verified Proof has a recorded fraud score below 70 and
\* a Proof that needs manual review has a recorded fraud score in [50, 70).
C6_VerdictMatchesRecordedScore ==
  OnlyCalled({"verify", "reverify", "legacyVerify"}) =>
    \A p \in proofs :
      /\ p.verified => p.fraudScore < AutoApproveBelow
      /\ p.needsManualReview =>
           (p.fraudScore >= ReviewFrom /\ p.fraudScore < AutoApproveBelow)

\* C7: in every reachable state, the states between two awaits of a handler
\* and the states left by a failed call included, a verified Proof for
\* (userId, questId) comes with a ProgressRecord of status verified.
C7_VerifiedProofHasVerifiedProgress ==
  \A p \in proofs : p.verified => ProgressVerified(p.userId, p.questId)

\* C8: in every state reached by verifyPlayerStats, reverifyProof,
\* deleteMyVerification and completeQuest calls that run one at a time, a
\* ProgressRecord of status verified for a quest that requires proof comes
\* with a verified Proof for its (userId, questId).
C8_VerifiedProgressHasVerifiedProof ==
  OnlyCalled({"verify", "reverify", "delete", "completeQuest"}) =>
    \A x \in progress :
      (x.status = "verified" /\ ProofRequired(x.questId))
        => VerifiedProofs(x.userId, x.questId) # {}

\* C10: once the concurrent calls have returned, the score of the
\* LeaderboardEntry of (userId, worldId) is the initial score plus the sum of
\* the contributions applied through updateLeaderboard (stated for the pairs
\* that have a single entry, so that "the entry" is well defined).
C10_NoLostContribution ==
  AllIdle =>
    \A e \in leaderboard :
      (\A f \in leaderboard :
         (f.userId = e.userId /\ f.worldId = e.worldId) => f = e)
      => e.score = contrib[<<e.userId, e.worldId>>]

\* ------------------------------------------- leaderboard and cache properties
EntriesOf(u, w) == {e \in leaderboard : e.userId = u /\ e.worldId = w}

\* C11: in every reachable state, concurrent first contributions included, at
\* most one LeaderboardEntry exists for each (userId, worldId).
C11_OneEntryPerUserAndWorld ==
  \A u \in Users, w \in Worlds : Cardinality(EntriesOf(u, w)) <= 1

\* C12: requests that miss the cache for the same (game, account) share one
\* provider fetch: no two provider calls for one cache key are in flight
\* together.
C12_SingleFlightPerCacheKey ==
  \A r1 \in Reqs, r2 \in Reqs :
    ( /\ r1 # r2
      /\ pc[r1] = "f_provider" /\ pc[r2] = "f_provider"
      /\ loc[r1].game = loc[r2].game )
    => loc[r1].account # loc[r2].account

\* C13: fetchPlayerStatsWithValidation serves a cached entry only when it is
\* younger than 5 minutes, and then without calling the provider; it calls the
\* provider only when there is no such entry, and the provider's answer
\* replaces the entry (stamped with the current time).
C13_CacheServesOnlyFreshEntries ==
  \A r \in Reqs :
    LET k == <<loc[r].game, loc[r].account>>
    IN /\ loc[r].cacheHit => (loc[r].cacheAge < CacheTtl /\ ~loc[r].fetched)
       /\ pc[r] = "f_provider" =>
            ~(apiCache[k].present /\ now - apiCache[k].timestamp < CacheTtl)
       /\ (loc[r].fetched /\ pc[r] # "f_provider" /\ loc[r].err \notin FetchErrors)
            => apiCache[k] = [present |-> TRUE, stats |-> loc[r].stats,
                              skill |-> loc[r].skill, timestamp |-> now]

\* A call is served an entry one millisecond short of 5 minutes old.
C13_Witness ==
  \E r \in Reqs : loc[r].cacheHit /\ loc[r].cacheAge = CacheTtl - 1

\* ------------------------------------------------- fraud score properties
\* C14: for every game, stats and user history, the value analyzeStats
\* returns is an integer between 0 and 100.
C14_FraudScoreInRange ==
  \A r \in Reqs : pc[r] = "a_done" => loc[r].fraud \in 0..100

\* The weights add up to more than 100 and the returned score is 100.
C14_Witness ==
  \E r \in Reqs :
    /\ pc[r] = "a_done"
    /\ loc[r].fraud = 100
    /\ checkImpossibleStats(loc[r].game, loc[r].stats)
         + checkUserBehavior(loc[r].userId)
         + checkAccountCredibility(loc[r].game, loc[r].stats) > 100

\* C15: every signal that adds a nonzero weight to the fraud score also adds
\* a flag string, so a nonzero score comes with at least one flag.
C15_EveryWeightHasAFlag ==
  \A r \in Reqs :
    pc[r] = "a_done" =>
      LET g == loc[r].game
          st == loc[r].stats
          u == loc[r].userId
      IN /\ checkImpossibleStats(g, st) > 0 => flagsOfImpossibleStats(g, st) # {}
         /\ checkStatConsistency(g, st) > 0 => flagsOfStatConsistency(g, st) # {}
         /\ checkUserBehavior(u) > 0 => flagsOfUserBehavior(u) # {}
         /\ checkAccountCredibility(g, st) > 0
              => flagsOfAccountCredibility(g, st) # {}
         /\ loc[r].fraud > 0 =>
              flagsOfImpossibleStats(g, st) \cup flagsOfStatConsistency(g, st)
                \cup flagsOfUserBehavior(u) \cup flagsOfAccountCredibility(g, st)
                # {}

\* soloQueue win rate of 97% (to the nearest percent) over 60 games
WinRate97Over60(stats) ==
  /\ stats.hasSolo
  /\ stats.wins + stats.losses = 60
  /\ WinRateX100(stats) >= 9650 /\ WinRateX100(stats) < 9750

\* C16: a league_of_legends submission whose soloQueue win rate is 97% over 60
\* games is scored 70 or more and its persisted Proof has verified = FALSE,
\* whatever the other stats and the user's history.
C16_ImplausibleWinRateIsRejected ==
  \A r \in Reqs :
    ( /\ loc[r].op = "verify" /\ loc[r].game = Lol /\ loc[r].proofId # 0
      /\ WinRate97Over60(loc[r].stats) )
    => /\ loc[r].fraud >= AutoApproveBelow
       /\ \A p \in proofs : p.id = loc[r].proofId => ~p.verified

\* ------------------------------------------------ submission gate properties
\* C17: a submission whose account string does not match the game's format
\* is rejected with the format error, makes no provider fetch, and adds no
\* timestamp to the (game, userId) rate window.
C17_FormatErrorLeavesRateWindow ==
  [][\A r \in Reqs :
       ( /\ pc[r] = "f_entry"
         /\ ~ValidAccountFormat(loc[r].game, loc[r].account)
         /\ pc'[r] # "f_entry" )
       => /\ pc'[r] # "f_provider"
          /\ rateLimitStore' = rateLimitStore]_vars

GateErrors == {"Rate limit exceeded", "Invalid account format"} \cup FetchErrors

LaterErrors == {"persistence error", "Chain submission failed"}

\* C18: a submission stopped by the rate gate, by the format gate or by a
\* provider error persists no Proof and changes no ProgressRecord or
\* LeaderboardEntry (at most its attempt record exists), and a submission
\* stopped by the rate gate or the format gate has made no provider fetch.
C18_StoppedSubmissionWritesNothing ==
  /\ \A r \in Reqs :
       (loc[r].op = "verify" /\ loc[r].err \in GateErrors) =>
         /\ loc[r].wrote = {}
         /\ loc[r].proofId = 0
         /\ loc[r].err \notin FetchErrors => ~loc[r].fetched
  /\ Cardinality(proofs) <=
       Cardinality({t \in attempts :
                      /\ t.error \notin GateErrors
                      /\ \A r \in Reqs :
                           loc[r].attemptId = t.id => loc[r].err \notin GateErrors})

\* A submission is stopped by the rate gate after an earlier submission of
\* the same user was let through.
C18_Witness ==
  \E r \in Reqs :
    /\ pc[r] = "v_catch"
    /\ loc[r].err = "Rate limit exceeded"
    /\ loc[r].attemptId # 0
    /\ Len(rateLimitStore[<<loc[r].game, loc[r].userId>>]) > 0

C20_FailureLeavesNothingPartial ==
  \A r \in Reqs :
    (loc[r].op = "verify" /\ pc[r] = "v_catch" /\ loc[r].err \in LaterErrors) =>
      /\ (\E p \in proofs : p.id = loc[r].proofId /\ p.verified)
           => {"progress", "leaderboard"} \subseteq loc[r].wrote
      /\ "progress" \in loc[r].wrote <=> "leaderboard" \in loc[r].wrote


\* ------------------------------------------------------------------------
\* Chain submission and provider errors

\* C21: when submitToChain fails after a Proof was accepted, the submission
\* ends with the Proof and the ProgressRecord still verified, its
\* VerificationAttempt recorded as successful, and the accepted outcome as
\* its answer (not an error).
C21_ChainFailureKeepsAcceptance ==
  [][\A r \in Reqs :
       ( /\ pc[r] = "v_catch"
         /\ loc[r].err = "Chain submission failed"
         /\ pc'[r] = "idle" )
       => /\ \E p \in proofs' : p.id = loc[r].proofId /\ p.verified
          /\ \E x \in progress' :
               /\ x.userId = loc[r].userId /\ x.questId = loc[r].questId
               /\ x.status = "verified"
          /\ \E t \in attempts' : t.id = loc[r].attemptId /\ t.success
          /\ last'[r].res = "Verification successful"]_vars


\* C22: a submission is at the submitToChain call only after its Proof was
\* persisted with verified = true and its ProgressRecord and
\* LeaderboardEntry writes were made, and only when its outcome is accepted:
\* never with a fraud score in the review band or the rejection band.
C22_ChainOnlyAfterAcceptedAndApplied ==
  \A r \in Reqs :
    pc[r] = "v_chain" =>
      /\ \E p \in proofs : p.id = loc[r].proofId /\ p.verified
      /\ {"proof", "progress", "leaderboard"} \subseteq loc[r].wrote
      /\ ProgressVerified(loc[r].userId, loc[r].questId)
      /\ EntriesOf(loc[r].userId, loc[r].worldId) # {}
      /\ ~NeedsManualReview(loc[r].fraud)
      /\ loc[r].fraud < AutoApproveBelow


\* C23: a submission stopped by a provider error answers with an error of
\* the taxonomy, a different one for each kind of provider error, and the
\* answer carries neither the provider's error nor the upstream message.
C23_ProviderErrorsAreTranslated ==
  [][\A r \in Reqs :
       ( /\ pc[r] = "v_catch"
         /\ loc[r].err \in FetchErrors
         /\ pc'[r] = "idle" )
       => /\ last'[r].res \in
               {CatchResponse(loc[r].game, m) :
                  m \in {"not found", "rate limit", "private"}}
          /\ last'[r].res \notin FetchErrors
          /\ \A error \in UpstreamErrors :
               ~Includes(last'[r].res, error.message)
          /\ \A e \in FetchErrors \ {loc[r].err} :
               CatchResponse(loc[r].game, e) # last'[r].res]_vars


\* ------------------------------------------------------------------------
\* Re-verification

\* C24: the step that completes reverifyProof leaves the Proof verified
\* exactly when the consistency score is above 0.7 and the fraud score just
\* computed from the re-fetched stats is below 70; otherwise the Proof is
\* left unverified.
C24_ReverifyVerdict ==
  [][\A r \in Reqs :
       (pc[r] = "rv_update" /\ pc'[r] = "idle") =>
         \A p \in proofs' :
           p.id = loc[r].proofId =>
             /\ p.newFraudScore =
                  analyzeStats(loc[r].game, loc[r].stats, loc[r].userId)
             /\ p.verified <=>
                  ( /\ calculateStatsConsistencyX100(NoStats, loc[r].stats) > 70
                    /\ p.newFraudScore < AutoApproveBelow )]_vars

\* A Proof that was verified when submitted has been re-verified with a
\* fraud score of 70 or more and is unverified; another has been re-verified
\* and kept.
C24_Witness ==
  /\ AllIdle
  /\ \E p \in proofs :
       /\ p.lastVerified # -1 /\ ~p.verified
       /\ p.fraudScore < AutoApproveBelow /\ p.newFraudScore >= AutoApproveBelow


\* C25: reverifyProof goes on to re-fetch stats only for a Proof submitted
\* at most 24 hours ago; for an older Proof it answers with the refusal, and
\* the refusal starts no fetch and changes neither the Proof table nor the
\* ProgressRecords nor the LeaderboardEntries (nor the cache or the rate
\* window).
C25_StaleProofIsRefused ==
  [][\A r \in Reqs :
       /\ (pc[r] = "idle" /\ loc'[r].op = "reverify") =>
            now - ProofById(loc'[r].proofId).submittedAt <= Day
       /\ ( /\ last'[r] # last[r]
            /\ last'[r].op = "reverify"
            /\ last'[r].res = "Proof is too old to re-verify" )
          => /\ pc' = pc /\ loc' = loc
             /\ proofs' = proofs /\ progress' = progress
             /\ leaderboard' = leaderboard
             /\ apiCache' = apiCache /\ rateLimitStore' = rateLimitStore]_vars

\* The owner's re-verification of a Proof of a focus quest, submitted more
\* than 24 hours ago, was refused.
C25_Witness ==
  \E r \in Reqs :
    /\ last[r].op = "reverify"
    /\ last[r].res = "Proof is too old to re-verify"
    /\ \E p \in proofs :
         /\ p.questId = last[r].questId /\ p.userId = last[r].userId
         /\ now - p.submittedAt > Day


\* ------------------------------------------------------------------------
\* Quest progress and scores

\* the order of the ProgressRecord statuses
StatusRank(status) ==
  CASE status = "not_started" -> 0 [] status = "in_progress" -> 1
    [] status = "completed" -> 2 [] status = "verified" -> 3

\* C26: no step of a quest operation changes the status of a verified
\* ProgressRecord or deletes it; a record is deleted only from in_progress
\* or completed, and no step moves a record to an earlier status.
C26_VerifiedProgressIsFinal ==
  [][\A x \in progress :
       /\ x.status = "verified" =>
            \E y \in progress' : y.id = x.id /\ y.status = "verified"
       /\ (\A y \in progress' : y.id # x.id) =>
            x.status \in {"in_progress", "completed"}
       /\ \A y \in progress' :
            y.id = x.id => StatusRank(y.status) >= StatusRank(x.status)]_vars


\* C27: no step of updateQuestProgress or completeQuest lowers the score of
\* a LeaderboardEntry, whatever score the caller of completeQuest passes.
C27_LeaderboardScoreNeverDecreases ==
  [][\A e \in leaderboard :
       \A f \in leaderboard' : f.id = e.id => f.score >= e.score]_vars


\* C28: the write of updateQuestProgress gives a new ProgressRecord the
\* points of the skill level by the fixed table, and leaves an existing
\* record with the larger of its score and those points: no step of
\* updateQuestProgress lowers the score of a ProgressRecord.
C28_ProgressScoreIsMaxOfTable ==
  [][\A r \in Reqs :
       (pc[r] = "u_write" /\ pc'[r] = "l_find") =>
         LET points ==
               CASE loc[r].skill = "Novice" -> 50
                 [] loc[r].skill = "Beginner" -> 100
                 [] loc[r].skill = "Intermediate" -> 250
                 [] loc[r].skill = "Intermediate+" -> 400
                 [] loc[r].skill = "Advanced" -> 600
                 [] loc[r].skill = "Expert" -> 1000
         IN /\ \A y \in progress' \ progress :
                 (\A x \in progress : x.id # y.id) => y.score = points
            /\ \A x \in progress, y \in progress' :
                 y.id = x.id =>
                   /\ y.score >= x.score
                   /\ x.id = loc[r].progId => y.score = Max(x.score, points)]_vars


\* ------------------------------------------------------------------------
\* Commitments

C30_RacingCallsKeepTheLimit ==
  /\ \A k \in RateKeys :
       /\ Len(rateLimitStore[k]) <= rateLimit[k[1]].requests
       /\ \A t \in 0..now :
            Cardinality(InWindow(rlLog[k], t, rateLimit[k[1]].window))
              <= rateLimit[k[1]].requests
  /\ \A r1 \in Reqs, r2 \in Reqs :
       ( /\ r1 # r2
         /\ pc[r1] = "rl_allowed" /\ pc[r2] = "rl_allowed"
         /\ loc[r1].game = loc[r2].game /\ loc[r1].userId = loc[r2].userId
         /\ loc[r1].timestamp = loc[r2].timestamp )
       => rateLimit[loc[r1].game].requests >= 2

\* Two calls of one key made in the same millisecond: the first took the
\* last free slot and the second was denied.
C30_Witness ==
  \E r1 \in Reqs, r2 \in Reqs :
    /\ pc[r1] = "rl_allowed" /\ pc[r2] = "rl_denied"
    /\ loc[r1].game = loc[r2].game /\ loc[r1].userId = loc[r2].userId
    /\ loc[r1].timestamp = loc[r2].timestamp
    /\ rlRes.at = loc[r2].timestamp /\ ~rlRes.ok
    /\ Len(rateLimitStore[<<loc[r1].game, loc[r1].userId>>])
         = rateLimit[loc[r1].game].requests


\* ------------------------------------------------------------------------
\* Attempt gate, cache and behavioural signal

\* C31: for every user and game, no trailing hour (ending at the time of any
\* attempt) holds more than 5 VerificationAttempt records, also when
\* submissions of that pair run concurrently.
C31_AttemptLimitUnderConcurrency ==
  \A t0 \in attempts :
    Cardinality({t \in attempts :
                   /\ t.userId = t0.userId /\ t.game = t0.game
                   /\ t.attemptedAt >= t0.attemptedAt - AttemptWindow
                   /\ t.attemptedAt <= t0.attemptedAt}) <= MaxAttempts


\* C32: a provider fetch that fails leaves the cache as it was, and the
\* entry of its key is then absent or expired, so that the next request for
\* the key goes to the provider again.
C32_FailedFetchIsNotCached ==
  [][\A r \in Reqs :
       (pc[r] = "f_provider" /\ loc'[r].err \in FetchErrors) =>
         /\ apiCache' = apiCache
         /\ ~CacheFresh(loc[r].game, loc[r].account)']_vars

\* A fetch has failed for a key whose expired entry is still the one stored
\* by the earlier, successful fetch.
C32_Witness ==
  \E r \in Reqs :
    /\ pc[r] = "v_catch" /\ loc[r].err \in FetchErrors
    /\ apiCache[<<loc[r].game, loc[r].account>>].present
    /\ apiCache[<<loc[r].game, loc[r].account>>].stats \in StatsOf(loc[r].game)
    /\ now - apiCache[<<loc[r].game, loc[r].account>>].timestamp >= CacheTtl


\* C33: the behavioural signal adds 20 to the fraud score exactly when the
\* user has more than 5 VerificationAttempt records (any game, any outcome) in
\* the preceding 24 hours, so the score analyzeStats returns is the capped sum
\* of the other three weights and that 20 or 0.
C33_BehaviorCountsAttempts ==
  \A r \in Reqs :
    pc[r] = "a_done" =>
      LET recentAttempts ==
            Cardinality({t \in attempts : /\ t.userId = loc[r].userId
                                          /\ t.attemptedAt >= now - Day})
      IN loc[r].fraud =
           Min(checkImpossibleStats(loc[r].game, loc[r].stats)
                 + checkStatConsistency(loc[r].game, loc[r].stats)
                 + (IF recentAttempts > BehaviorThreshold THEN 20 ELSE 0)
                 + checkAccountCredibility(loc[r].game, loc[r].stats),
               100)


\* ------------------------------------------------------------------------
\* Who may change a Proof

\* C34: a step that changes a stored Proof belongs to the submission that
\* created it or to a re-verification of it (reverifyProof or the verify
\* route) requested by its owner or an admin; no request of another user
\* changes it.
C34_OnlyOwnerOrAdminChangesProof ==
  [][\A p \in proofs :
       (\E p2 \in proofs' : p2.id = p.id /\ p2 # p) =>
         \E r \in Reqs :
           /\ pc[r] # "idle" /\ pc'[r] # pc[r]
           /\ loc[r].proofId = p.id
           /\ \/ loc[r].op = "verify"
              \/ /\ loc[r].op \in {"reverify", "legacyVerify"}
                 /\ last[r].userId \in {p.userId} \cup Admins]_vars


\* ------------------------------------------------------------------------
\* Skill tiers

\* the order Novice < Beginner < Intermediate < Intermediate+ < Advanced < Expert
SkillRank(skillLevel) ==
  CASE skillLevel = "Novice" -> 0 [] skillLevel = "Beginner" -> 1
    [] skillLevel = "Intermediate" -> 2 [] skillLevel = "Intermediate+" -> 3
    [] skillLevel = "Advanced" -> 4 [] skillLevel = "Expert" -> 5

\* the number of performance inputs (win rate; KDA or KDR; headshot rate;
\* utility score) in which two stats differ
ModifiersChanged(a, b) ==
  Cardinality(
    {i \in 1..4 :
       \/ i = 1 /\ (WinRateX100(a) # WinRateX100(b) \/ a.winRateX100 # b.winRateX100)
       \/ i = 2 /\ (a.averageKDAx10 # b.averageKDAx10 \/ a.kdrX100 # b.kdrX100)
       \/ i = 3 /\ a.headShotX100 # b.headShotX100
       \/ i = 4 /\ a.utilityScore # b.utilityScore})

\* C35: two assessSkillLevelAdvanced results for the same game whose stats
\* have the same rank inputs (tier, division, league points or RR) and differ
\* in one performance input only (win rate, KDA or KDR, headshot rate or
\* utility score) are at most one tier apart.
C35_OneModifierMovesOneTier ==
  \A r1 \in Reqs, r2 \in Reqs :
    ( /\ pc[r1] = "k_done" /\ pc[r2] = "k_done"
      /\ loc[r1].game = loc[r2].game
      /\ loc[r1].stats.tier = loc[r2].stats.tier
      /\ loc[r1].stats.rank = loc[r2].stats.rank
      /\ loc[r1].stats.leaguePoints = loc[r2].stats.leaguePoints
      /\ loc[r1].stats.rr = loc[r2].stats.rr
      /\ ModifiersChanged(loc[r1].stats, loc[r2].stats) = 1 )
    => /\ SkillRank(loc[r1].skill) - SkillRank(loc[r2].skill) <= 1
       /\ SkillRank(loc[r2].skill) - SkillRank(loc[r1].skill) <= 1


\* ------------------------------------------------------------------------
\* Re-verification and attempt outcomes

\* C36: the step that completes reverifyProof never leaves verified a Proof
\* that was unverified (rejected or under review) before it: a Proof stays
\* verified or becomes unverified.
C36_ReverifyNeverPromotes ==
  [][\A r \in Reqs :
       (pc[r] = "rv_update" /\ pc'[r] = "idle") =>
         \A p \in proofs, p2 \in proofs' :
           (p.id = loc[r].proofId /\ p2.id = p.id /\ ~p.verified) => ~p2.verified]_vars


\* ------------------------------------------------------------------------
\* Quest completion and progress records

\* C37: however many times completeQuest is called for a (userId, questId),
\* the quest's score is added to the world leaderboard once at most: after
\* startQuest and completeQuest calls with score 10 on an empty store, run
\* one at a time, no leaderboard entry holds more than 10.
C37_QuestScoreCountedOnce ==
  ( /\ OnlyCalled({"startQuest", "completeQuest"})
    /\ \A x \in progress : x.questId \in FocusQuests )
  => \A e \in leaderboard : e.score <= 10


\* C38: a step marks a VerificationAttempt success = true only for a
\* submission that persisted a Proof with verified = true: the attempts of
\* rejected submissions and of those under review keep success = false.
C38_SuccessOnlyForVerifiedProof ==
  [][\A t \in attempts, t2 \in attempts' :
       (t2.id = t.id /\ ~t.success /\ t2.success) =>
         \E r \in Reqs :
           /\ loc[r].op = "verify" /\ loc[r].attemptId = t.id
           /\ \E p \in proofs : p.id = loc[r].proofId /\ p.verified]_vars


\* C39: in every state reached by interleaved startQuest and
\* updateQuestProgress calls, at most one ProgressRecord exists per
\* (userId, questId).
C39_OneProgressRecordPerPair ==
  OnlyCalled({"startQuest", "updateQuestProgress"}) =>
    \A x \in progress, y \in progress :
      (x.userId = y.userId /\ x.questId = y.questId) => x.id = y.id

=============================================================================
